---- MODULE Spec2Model ----
(***************************************************************************)
(* A model of the CBG-Agent pipeline:                                      *)
(*   - the document segmenter  (tools/pdf_parser.py, _detect_job_segments) *)
(*   - the contract validator  (tools/brain.py, generate_competency_json)  *)
(*   - the slide renderer      (tools/competency_generator.py)             *)
(*   - the level-text normalisation (_normalize_lines of both modules)     *)
(*   - the job extraction      (tools/pdf_parser.py, parse_jd_pdf and      *)
(*                              _validate_job_payload)                     *)
(*   - the output file name    (tools/competency_generator.py,             *)
(*                              default_output_name)                       *)
(*                                                                         *)
(* Strings whose length or whitespace matters are sequences of one-        *)
(* character strings.  JSON values are records [t, v].                     *)
(***************************************************************************)
EXTENDS Integers, Sequences, FiniteSets, TLC

VARIABLES
    \* ---- segmenter ----
    page_texts,     \* the per-page texts handed to _detect_job_segments
    job_segments,   \* the list it returned
    segPc,          \* "start" | "done"
    \* ---- contract validator ----
    project,        \* TRUE iff GOOGLE_CLOUD_PROJECT / GCP_PROJECT is set
    job_payload,    \* the job mapping of the current invocation
    retry,          \* the retry argument of the current invocation
    chosen,         \* the chosen_competency argument (JSON value)
    prompt,         \* the prompt built by build_brain_prompt
    pc,             \* "idle" | "loop" | "returned" | "raised"
    calls,          \* synthesizer calls issued in the current invocation
    sent,           \* the prompt handed to the latest synthesizer call
    raw,            \* raw text returned by the latest synthesizer call
    last_err,       \* last_err of the retry loop
    out,            \* the value returned by the invocation
    exc,            \* the exception raised by the invocation
    earlier,        \* what the previous invocation used: "nothing" | "clarification" |
                    \* "exhausted" (every attempt of its budget)
    \* ---- renderer ----
    entry,          \* "none" | "slides" (generate_competency_slides) |
                    \* "pptx" (render_competency_pptx)
    template,       \* the template file
    layout_name,    \* the layout_name argument
    strict_arg,     \* the strict argument: "omitted" | "true" | "false"
    jobs_data,      \* the jobs_data argument
    rpc,            \* "idle" | "checked" | "open" | "jobs" | "slides" | "save" |
                    \* "upload" | "handoff" | "returned" | "raised"
    preflight,      \* what validate_template_placeholders returned
    layout_map,     \* the placeholder names of the selected layout
    job_i,          \* the job the loop is at (1-based, 0 before the loop)
    topic_i,        \* the topics of that job already written
    slides,         \* the slides added to the presentation
    file,           \* the output file: "absent" | "saved" | "removed"
    rexc,           \* the exception raised by the call
    topics_count,   \* topics_count of render_competency_pptx
    upload,         \* "none" | "uploaded" | "failed" | "no_bucket"
    result,         \* the dictionary returned by render_competency_pptx
    out_name,       \* out_name of render_competency_pptx
    signed_url,     \* TRUE iff a signed URL was obtained
    tool_ctx,       \* TRUE iff the call has a tool context
    artifact,       \* the artifact hand-off: "none" | "saved" | "failed"
    \* ---- proficiency-level texts ----
    level_value,    \* the value supplied for a level field (null, string or list)
    npc,            \* "start" | "validated" | "rendered" | "again"
    level_text,     \* the level field of the validated CompetencyTopic
    render_text,    \* the renderer's normalisation of the supplied value
    level_text2,    \* the validator's normalisation of level_text
    render_text2,   \* the renderer's normalisation of render_text
    \* ---- job extraction (parse_jd_pdf) ----
    runs,           \* the invocations of parse_jd_pdf that share one tool context
    ctx_state,      \* tool_context.state: the keys written and their values
    \* ---- extracted payload (_validate_job_payload) ----
    extracted,      \* the mapping handed to _validate_job_payload
    vpc,            \* "start" | "done"
    validated_job,  \* the mapping it returned
    \* ---- output name (default_output_name) ----
    job_title,      \* the job_title argument
    when,           \* the when argument
    namePc,         \* "start" | "done"
    output_name     \* the name it returned

segVars == <<page_texts, job_segments, segPc>>
brainVars ==
    <<project, job_payload, retry, chosen, prompt, pc, calls, sent, raw, last_err, out,
      exc, earlier>>
deliveryVars == <<out_name, signed_url, tool_ctx, artifact>>
renderVars ==
    <<entry, template, layout_name, strict_arg, jobs_data, rpc, preflight, layout_map,
      job_i, topic_i, slides, file, rexc, topics_count, upload, result, deliveryVars>>
normVars == <<level_value, npc, level_text, render_text, level_text2, render_text2>>
parserVars == <<runs, ctx_state, extracted, vpc, validated_job>>
nameVars == <<job_title, when, namePc, output_name>>
vars == <<segVars, brainVars, renderVars, normVars, parserVars, nameVars>>

(***************************************************************************)
(* Bounds of the model                                                     *)
(***************************************************************************)
MaxPages == 6
MaxRetry == 1
MaxJobs == 2
MaxDeckJobs == 2
MaxTextLen == 5
MaxItems == 2
MaxCodeLen == 4
MaxDutyLen == 4
MaxIndex == 2
MaxTitleLen == 3

(***************************************************************************)
(* Generic helpers                                                         *)
(***************************************************************************)
Max(a, b) == IF a >= b THEN a ELSE b

\* s[:n] of Python
Take(s, n) == IF Len(s) <= n THEN s ELSE SubSeq(s, 1, n)

\* the sequences over S of length 0..n
SeqsUpTo(S, n) == UNION {[1..k -> S] : k \in 0..n}

(***************************************************************************)
(* DocumentSegmenter                                                       *)
(*                                                                         *)
(* A page text is the sequence of its lines.  A line is one of             *)
(*   "HDR"   the marker alone on its line                                  *)
(*   "xHDR"  other text, then the marker at the end of the line            *)
(*   "HDRx"  the marker, then other text on the same line                  *)
(*   "HH"    the marker twice on one line                                  *)
(*   ""      a blank line                                                  *)
(*   "t1", "t2"  text without the marker                                   *)
(***************************************************************************)
JD_HEADER == "HDR"

\* the fallback title ("not specified", an Arabic literal in the source)
DefaultTitle == "unspecified"

\* the number of times the marker occurs in a line
LineOccurrences(ln) ==
    CASE ln = "HDR" -> 1
      [] ln = "xHDR" -> 1
      [] ln = "HDRx" -> 1
      [] ln = "HH" -> 2
      [] OTHER -> 0

RECURSIVE SumOcc(_)
SumOcc(lines) ==
    IF lines = <<>> THEN 0 ELSE LineOccurrences(Head(lines)) + SumOcc(Tail(lines))

\* the number of marker occurrences on a page
PageOccurrences(t) == SumOcc(t)

\* JD_HEADER in t
ContainsHeader(t) == \E i \in 1..Len(t) : LineOccurrences(t[i]) > 0

\* the marker is the last thing on the line (what HDR\s*\n matches)
HeaderEndsLine(ln) == ln \in {"HDR", "xHDR", "HH"}

\* [ln.strip() for ln in text.splitlines() if ln.strip()]
StrippedLines(t) == SelectSeq(t, LAMBDA ln : ln # "")

\* the first index (1-based) at which the sequence of booleans is TRUE, 0 when none
FirstTrue(bs) ==
    IF \E i \in 1..Len(bs) : bs[i]
    THEN CHOOSE i \in 1..Len(bs) : bs[i] /\ \A j \in 1..(i - 1) : ~bs[j]
    ELSE 0

\* re.search(JD_HEADER \s*\n\s*(.+)) on the page text
RegexTitle(t) ==
    LET i == FirstTrue([n \in 1..Len(t) |-> HeaderEndsLine(t[n])])
        rest == IF i = 0 THEN <<>> ELSE StrippedLines(SubSeq(t, i + 1, Len(t)))
    IN IF rest = <<>> THEN DefaultTitle ELSE rest[1]

\* the title of the job card opening on page text t
SegmentTitle(t) ==
    LET lines == StrippedLines(t)
        k == FirstTrue([n \in 1..Len(lines) |-> lines[n] = JD_HEADER])
    IN IF k # 0
       THEN (IF k + 1 <= Len(lines) THEN lines[k + 1] ELSE DefaultTitle)
       ELSE RegexTitle(t)

\* mutant: a document without a marker is taken as one segment from its first page
StartsWholeWhenNone(pages) ==
    LET found == SelectSeq([i \in 1..Len(pages) |-> i - 1],
                           LAMBDA p : ContainsHeader(pages[p + 1]))
    IN IF found = <<>> /\ pages # <<>> THEN <<0>> ELSE found

\* mutant: the scan starts at the second page
StartsSkipFirst(pages) ==
    SelectSeq([i \in 1..Len(pages) |-> i - 1],
              LAMBDA p : p > 0 /\ ContainsHeader(pages[p + 1]))

\* starts = [i for i, t in enumerate(page_texts) if JD_HEADER in t]  (0-based)
Starts(pages) ==
    SelectSeq([i \in 1..Len(pages) |-> i - 1],
              LAMBDA p : ContainsHeader(pages[p + 1]))

\* mutant: a segment runs through the page of the next marker
SegmentEndInclusive(starts, idx, npages) ==
    IF idx + 1 <= Len(starts) THEN starts[idx + 1] ELSE npages - 1

\* e = starts[idx+1]-1 if idx+1 < len(starts) else len(page_texts)-1  (idx 1-based here)
SegmentEnd(starts, idx, npages) ==
    IF idx + 1 <= Len(starts) THEN starts[idx + 1] - 1 ELSE npages - 1

\* _detect_job_segments(page_texts)
DetectJobSegments(pages) ==
    LET starts == Starts(pages)
    IN [j \in 1..Len(starts) |->
          [index |-> j - 1,
           page_start |-> starts[j],
           page_end |-> SegmentEnd(starts, j, Len(pages)),
           title |-> SegmentTitle(pages[starts[j] + 1])]]

\* representative page texts
PageTexts ==
    { <<"t1">>,
      <<"HDR", "t1">>,
      <<"t2", "HDR">>,
      <<"xHDR", "", "t2">>,
      <<"HDR", "t1", "HH", "t2">> }

Documents == SeqsUpTo(PageTexts, MaxPages)


(***************************************************************************)
(* ContractValidator: values                                               *)
(***************************************************************************)
\* JSON values that occur as mapping fields: null or a string
Null == [t |-> "null", v |-> <<>>]
Str(s) == [t |-> "str", v |-> s]

\* Python truthiness of such a value
Truthy(x) == x.t = "str" /\ x.v # <<>>

\* a whitespace character (what str.strip() and the regex class \s take off)
IsSpace(c) == c \in {" ", "\n", "\t"}

RECURSIVE LStrip(_)
LStrip(s) == IF s # <<>> /\ IsSpace(Head(s)) THEN LStrip(Tail(s)) ELSE s

RECURSIVE RStrip(_)
RStrip(s) ==
    IF s # <<>> /\ IsSpace(s[Len(s)]) THEN RStrip(SubSeq(s, 1, Len(s) - 1)) ELSE s

\* str.strip()
Strip(s) == RStrip(LStrip(s))

\* a JSON array of strings
Lst(items) == [t |-> "list", v |-> items]

\* the bullet glyph U+2022, written "@" here
Glyph == "@"

\* the characters the regex class [-*\u2022] matches
IsMarker(c) == c \in {"-", "*", Glyph}

\* text.replace(U+2022, "")
RemoveGlyph(s) == SelectSeq(s, LAMBDA c : c # Glyph)

\* str.splitlines(): the text between line breaks, no empty last line after a final
\* line break
RECURSIVE SplitLines(_)
SplitLines(s) ==
    IF s = <<>> THEN <<>>
    ELSE LET k == FirstTrue([i \in 1..Len(s) |-> s[i] = "\n"])
         IN IF k = 0 THEN <<s>>
            ELSE <<SubSeq(s, 1, k - 1)>> \o SplitLines(SubSeq(s, k + 1, Len(s)))

\* "\n".join(items)
RECURSIVE JoinLines(_)
JoinLines(items) ==
    IF items = <<>> THEN <<>>
    ELSE IF Len(items) = 1 THEN items[1]
    ELSE items[1] \o <<"\n">> \o JoinLines(Tail(items))

\* [x.strip() for x in items if x.strip()]
StrippedNonEmpty(items) ==
    SelectSeq([i \in 1..Len(items) |-> Strip(items[i])], LAMBDA x : x # <<>>)

\* re.sub(r"^\s*[-*\u2022]\s*", "", ln): whitespace, ONE marker and the whitespace
\* after it are cut from the start of the text; a text that does not start so is
\* left as it is
RemoveLeadingBullet(ln) ==
    LET a == LStrip(ln)
    IN IF a # <<>> /\ IsMarker(Head(a)) THEN LStrip(Tail(a)) ELSE ln

\* the loop body of _normalize_lines on one item
CleanLine(ln) == Strip(RemoveGlyph(RemoveLeadingBullet(ln)))

\* the items _normalize_lines works on: the elements of a list as they are, the
\* lines of a string; stripped, the empty ones dropped
NormalizeItems(value) ==
    IF value.t = "list" THEN StrippedNonEmpty(value.v)
    ELSE StrippedNonEmpty(SplitLines(value.v))

\* brain._normalize_lines(value)
NormalizeLines(value) ==
    IF value.t = "null" THEN <<>>
    ELSE LET items == NormalizeItems(value)
         IN JoinLines(SelectSeq([i \in 1..Len(items) |-> CleanLine(items[i])],
                                LAMBDA x : x # <<>>))

\* competency_generator._normalize_lines(text_or_list): a string is stripped first
\* and gives "" when nothing is left; each item is stripped once more after the
\* leading marker is cut
RenderNormalizeLines(value) ==
    IF value.t = "null" THEN <<>>
    ELSE IF value.t = "str" /\ Strip(value.v) = <<>> THEN <<>>
    ELSE LET items == IF value.t = "list" THEN StrippedNonEmpty(value.v)
                      ELSE StrippedNonEmpty(SplitLines(Strip(value.v)))
             clean(it) == Strip(RemoveGlyph(Strip(RemoveLeadingBullet(it))))
         IN JoinLines(SelectSeq([i \in 1..Len(items) |-> clean(items[i])],
                                LAMBDA x : x # <<>>))

\* _strip_bullet_symbols(text)
StripBulletSymbols(s) == IF s = <<>> THEN s ELSE Strip(RemoveGlyph(s))

DEFAULT_COMP_TYPE == <<"D", "F", "L", "T">>

\* field constraints of the pydantic models
MinCandidates == 2
MaxCandidates == 5
MinQuestionLen == 6
MinTopicTitleLen == 2
MinTopicDescLen == 6
MinNameLen == 2
MinDefinitionLen == 10
MinJobGroupLen == 2
MinDepartmentLen == 2
MinTopics == 2
MaxTopics == 3

\* the (English, Arabic) values a classification field is given, X and y its texts:
\* both absent; only the Arabic label; a blank English value; an English value
FieldCase(n, X, y) ==
    CASE n = 0 -> <<Null, Null>>
      [] n = 1 -> <<Null, Str(<<y>>)>>
      [] n = 2 -> <<Str(<<" ">>), Str(<<y>>)>>
      [] OTHER -> <<Str(<<" ", X, " ">>), Str(<<y>>)>>

MkPayload(g, s, l) ==
    [general_group |-> g[1], ar_general_group |-> g[2],
     specific_group |-> s[1], ar_specific_group |-> s[2],
     job_location |-> l[1], ar_job_location |-> l[2]]

\* the job payloads tried: every case of every field, the three fields in the same
\* case and in three different cases
JobPayloads ==
    {MkPayload(FieldCase(n, "G", "g"), FieldCase(n, "S", "s"), FieldCase(n, "L", "l")) :
        n \in 0..3}
    \cup {MkPayload(FieldCase(n, "G", "g"), FieldCase((n + 1) % 4, "S", "s"),
                    FieldCase((n + 2) % 4, "L", "l")) : n \in 0..3}

EmptyPayload == MkPayload(<<Null, Null>>, <<Null, Null>>, <<Null, Null>>)

ChosenValues == {Null, Str(<<>>), Str(<<"C">>)}

RetryValues == (-1)..MaxRetry

\* ---- what the synthesizer can produce ----
Topic(n) == [title |-> <<"T", n>>, desc |-> <<"d", "e", "s", "c", "-", n>>]

T1 == Topic("1")
T2 == Topic("2")
T3 == Topic("3")
T4 == Topic("4")

Def10 == <<"a", "b", "l", "e", " ", "t", "o", " ", "d", "o">>

JobA ==
    [competency_name |-> <<"N", "a">>, definition |-> Def10, comp_type |-> Null,
     job_group |-> <<"J", "a">>, department |-> <<"D", "a">>, topics |-> <<T1, T2>>]

JobB ==
    [competency_name |-> <<"N", "b">>, definition |-> Def10,
     comp_type |-> Str(<<" ", "C", "b">>),
     job_group |-> <<"J", "b">>, department |-> <<"D", "b">>, topics |-> <<T3, T2, T1>>]

JobOneTopic == [JobA EXCEPT !.topics = <<T1>>]

JobFourTopics == [JobB EXCEPT !.topics = <<T1, T2, T3, T4>>]

JobItems == {JobA, JobB, JobOneTopic, JobFourTopics}

\* parsed JSON data: a scalar, an object or a list
ScalarData ==
    [kind |-> "scalar", flag |-> "absent", candidates |-> <<>>, question |-> <<>>,
     items |-> <<>>]

ObjectData(flag, cands, q) ==
    [kind |-> "object", flag |-> flag, candidates |-> cands, question |-> q,
     items |-> <<>>]

ListData(items) ==
    [kind |-> "list", flag |-> "absent", candidates |-> <<>>, question |-> <<>>,
     items |-> items]

QuestionOk == <<"c", "h", "o", "o", "s", "e">>
QuestionShort == <<"w", "h", "i", "c", "h">>

CandidateLists ==
    { <<"A">>, <<"A", "B">>, <<"B", "A">>,
      <<"A", "B", "C", "D", "E">>, <<"A", "B", "C", "D", "E", "F">> }

\* the arrays of job objects: every array of up to MaxJobs of the first three items,
\* and the job with four topics alone
JobLists ==
    SeqsUpTo(JobItems \ {JobFourTopics}, MaxJobs) \cup {<<JobFourTopics>>}

\* needs_clarification: true | false | absent (a bare job object) | the string "true"
JsonData ==
    {ScalarData}
    \cup {ObjectData(f, <<"A", "B">>, QuestionOk) : f \in {"false", "absent", "string"}}
    \cup {ObjectData("true", c, q) : c \in CandidateLists, q \in {QuestionOk, QuestionShort}}
    \cup {ListData(items) : items \in JobLists}

\* raw text: JSON alone, JSON in a code fence, JSON inside commentary, JSON after
\* commentary that itself holds a bracket, or text with no JSON in it
RawJson(wrap, d) == [wrap |-> wrap, text |-> "", data |-> d]
RawText(txt) == [wrap |-> "text", text |-> txt, data |-> ScalarData]

NoRaw == [wrap |-> "none", text |-> "", data |-> ScalarData]

RawOutputs ==
    {RawJson("plain", d) : d \in JsonData}
    \cup {RawJson(w, ListData(<<JobA>>)) : w \in {"fenced", "prose", "stray"}}
    \cup {RawText(""), RawText("oops")}


(***************************************************************************)
(* ContractValidator: parsing and validation                               *)
(***************************************************************************)
\* an error message, str(e): the exception type and what it reports
Err(type, detail) == [type |-> type, detail |-> detail]
NoErr == Err("None", <<>>)

NoOut ==
    [kind |-> "none", candidates |-> <<>>, question |-> <<>>, reason |-> "",
     jobs |-> <<>>]

ClarificationOut(cands, q, reason) ==
    [kind |-> "clarification", candidates |-> cands, question |-> q,
     reason |-> reason, jobs |-> <<>>]

JobsOut(jobs) ==
    [kind |-> "jobs", candidates |-> <<>>, question |-> <<>>, reason |-> "",
     jobs |-> jobs]

Ok(o) == [ok |-> TRUE, out |-> o, err |-> NoErr]
Fail(e) == [ok |-> FALSE, out |-> NoOut, err |-> e]

\* json.loads(_clean_json_text(raw_text)): fences are stripped and the text is cut
\* from its first opening to its last closing bracket; commentary holding a bracket
\* of its own, or around a value without brackets, is left in and does not parse
JsonLoads(r) ==
    IF \/ r.wrap \in {"plain", "fenced"}
       \/ r.wrap = "prose" /\ r.data.kind # "scalar"
    THEN [ok |-> TRUE, data |-> r.data, err |-> NoErr]
    ELSE [ok |-> FALSE, data |-> ScalarData,
          err |-> Err("JSONDecodeError", <<r.wrap, r.text>>)]

\* candidates: List[str] = Field(..., min_length=2, max_length=5)
CandidatesErrors(cands) ==
    IF Len(cands) < MinCandidates \/ Len(cands) > MaxCandidates
    THEN <<"candidates">> ELSE <<>>

\* mutant: the candidates are cut to the first two
KeptCandidatesTwo(cands) == Take(cands, 2)

\* the candidates field of the validated model
KeptCandidates(cands) == cands

\* ClarificationNeeded.model_validate(data)
ValidateClarification(d) ==
    LET errs == CandidatesErrors(d.candidates)
                \o (IF Len(d.question) < MinQuestionLen THEN <<"question">> ELSE <<>>)
    IN IF errs = <<>>
       THEN Ok(ClarificationOut(KeptCandidates(d.candidates), d.question, ""))
       ELSE Fail(Err("ValidationError", errs))

\* CompetencyTopic validation
TopicValid(t) == Len(t.title) >= MinTopicTitleLen /\ Len(t.desc) >= MinTopicDescLen

\* mutant: only the lower bound of the topic count is enforced
TopicsErrorsNoMax(topics) ==
    IF \/ Len(topics) < MinTopics
       \/ \E i \in 1..Len(topics) : ~TopicValid(topics[i])
    THEN <<"topics">> ELSE <<>>

\* topics: List[CompetencyTopic] = Field(..., min_length=2, max_length=3)
TopicsErrors(topics) ==
    IF \/ Len(topics) < MinTopics
       \/ Len(topics) > MaxTopics
       \/ \E i \in 1..Len(topics) : ~TopicValid(topics[i])
    THEN <<"topics">> ELSE <<>>

\* CompetencyJob.default_comp_type
DefaultCompType(v) ==
    LET s == Strip(IF Truthy(v) THEN v.v ELSE <<>>)
    IN IF s = <<>> THEN DEFAULT_COMP_TYPE ELSE s

\* the fields of item that fail CompetencyJob validation, in field order
JobErrors(item) ==
    (IF Len(item.competency_name) < MinNameLen THEN <<"competency_name">> ELSE <<>>)
    \o (IF Len(item.definition) < MinDefinitionLen THEN <<"definition">> ELSE <<>>)
    \o (IF Len(item.job_group) < MinJobGroupLen THEN <<"job_group">> ELSE <<>>)
    \o (IF Len(item.department) < MinDepartmentLen THEN <<"department">> ELSE <<>>)
    \o TopicsErrors(item.topics)

\* the CompetencyJob built from a valid item
ValidatedJob(item) == [item EXCEPT !.comp_type = DefaultCompType(@)]

\* mutant: every validated job is kept
TruncateJobsKeepAll(jobs) == jobs

\* if len(jobs) != 1: jobs = jobs[:1]
TruncateJobs(jobs) == IF Len(jobs) # 1 THEN Take(jobs, 1) ELSE jobs

\* jobs = [CompetencyJob.model_validate(item) for item in data]: the first invalid
\* item raises
ValidateJobs(items) ==
    LET bad == FirstTrue([n \in 1..Len(items) |-> JobErrors(items[n]) # <<>>])
    IN IF bad # 0
       THEN Fail(Err("ValidationError", JobErrors(items[bad])))
       ELSE Ok(JobsOut(TruncateJobs([i \in 1..Len(items) |-> ValidatedJob(items[i])])))

\* mutant: any truthy needs_clarification selects the clarification branch
ParseBrainOutputTruthyFlag(r) ==
    LET j == JsonLoads(r)
        d == j.data
    IN IF ~j.ok THEN Fail(j.err)
       ELSE IF d.kind = "object" /\ d.flag \in {"true", "string"}
            THEN ValidateClarification(d)
       ELSE IF d.kind # "list"
            THEN Fail(Err("ValueError", <<"Brain output must be a JSON array">>))
       ELSE ValidateJobs(d.items)

\* _parse_brain_output(raw_text)
ParseBrainOutput(r) ==
    LET j == JsonLoads(r)
        d == j.data
    IN IF ~j.ok THEN Fail(j.err)
       ELSE IF d.kind = "object" /\ d.flag = "true" THEN ValidateClarification(d)
       ELSE IF d.kind # "list"
            THEN Fail(Err("ValueError", <<"Brain output must be a JSON array">>))
       ELSE ValidateJobs(d.items)

\* mutant: only the English key is read
HeaderValueEnglishOnly(payload, en, ar) ==
    Strip(IF Truthy(payload[en]) THEN payload[en].v ELSE <<>>)

\* (job_payload.get(en) or job_payload.get(ar) or "").strip()
HeaderValue(payload, en, ar) ==
    Strip(IF Truthy(payload[en]) THEN payload[en].v
          ELSE IF Truthy(payload[ar]) THEN payload[ar].v
          ELSE <<>>)

\* job0.model_copy(update=updates)
ForceHeaders(job, payload) ==
    LET gg == HeaderValue(payload, "general_group", "ar_general_group")
        sg == HeaderValue(payload, "specific_group", "ar_specific_group")
        jl == HeaderValue(payload, "job_location", "ar_job_location")
    IN [job EXCEPT !.comp_type = IF gg # <<>> THEN gg ELSE @,
                   !.job_group = IF sg # <<>> THEN sg ELSE @,
                   !.department = IF jl # <<>> THEN jl ELSE @]

\* the body of the try block: parse, then force the headers of out[0]
AttemptResult(r, payload) ==
    LET p == ParseBrainOutput(r)
    IN IF p.ok /\ p.out.kind = "jobs" /\ p.out.jobs # <<>>
       THEN Ok(JobsOut([p.out.jobs EXCEPT ![1] = ForceHeaders(@, payload)]))
       ELSE p

\* mutant: one attempt more than the budget
AttemptsOneMore(r) == 2 + Max(0, r)

\* attempts = 1 + max(0, int(retry))
Attempts(r) == 1 + Max(0, r)

\* mutant: the first error is kept
NextLastErrFirst(old, e) == IF old = NoErr THEN e ELSE old

\* last_err = str(e)
NextLastErr(old, e) == e

\* mutant: the steering note is added whenever chosen_competency is not None
BuildBrainPromptNotNone(payload, ch) ==
    [steer |-> ch, job |-> payload]

\* build_brain_prompt: the instruction text, the steering note when
\* chosen_competency is truthy, and the payload as JSON
BuildBrainPrompt(payload, ch) ==
    [steer |-> IF Truthy(ch) THEN ch ELSE Null, job |-> payload]

NoPrompt == BuildBrainPrompt(EmptyPayload, Null)

\* mutant: the fallback offers a single candidate
LocalFallbackOne ==
    ClarificationOut(<<"c1">>, <<"n", "o", "-", "p", "r", "o", "j">>, "no_project")

\* the ClarificationNeeded returned when no project is configured
LocalFallback ==
    ClarificationOut(<<"c1", "c2", "c3">>, <<"n", "o", "-", "p", "r", "o", "j">>,
                     "no_project")

NoExc == [type |-> "None", attempts |-> 0, last |-> NoErr]

\* RuntimeError("Brain step failed after {attempts} attempts. Last error: {last_err}")
TerminalFailure(attempts, err) ==
    [type |-> "RuntimeError", attempts |-> attempts, last |-> err]

\* an exception of the synthesizer call itself
SynthError == [type |-> "SynthError", attempts |-> 0, last |-> NoErr]


(***************************************************************************)
(* TemplateOverlayRenderer: values                                         *)
(***************************************************************************)
REQUIRED_PLACEHOLDERS ==
    << "Header_CompType", "Header_JobGroup", "Header_Competency", "Header_Department",
       "Main_Title", "Main_Definition", "Topic_Title", "Topic_Description",
       "Level_Expert", "Level_Advanced", "Level_Intermediate", "Level_Beginner" >>

RequiredNames == {REQUIRED_PLACEHOLDERS[i] : i \in 1..Len(REQUIRED_PLACEHOLDERS)}

\* the default of layout_name
DefaultLayoutName == "Competency_Layout"

\* the default of strict in generate_competency_slides and in render_competency_pptx
SlidesStrictDefault == TRUE
PptxStrictDefault == TRUE

\* a slide layout: its name, the names of its placeholders, and the names whose
\* placeholder index a slide made from the layout does not carry
Layout(name, exposed, absent) == [name |-> name, exposed |-> exposed, absent |-> absent]

TemplateFile(layouts) == [exists |-> TRUE, layouts |-> layouts]

\* a template path at which there is no file
MissingFile == [exists |-> FALSE, layouts |-> <<>>]

FullLayout == Layout(DefaultLayoutName, RequiredNames, {})

\* the required names but the n-th
LayoutWithout(n) ==
    Layout(DefaultLayoutName, RequiredNames \ {REQUIRED_PLACEHOLDERS[n]}, {})

BlankLayout == Layout("Blank", {"Title"}, {})

\* the (template, layout_name) pairs tried: a complete layout; a layout lacking any
\* one required name; one lacking two; one with a name more; one whose slides lack
\* the index of a name; templates of two layouts asked for by a name they have and
\* by one they do not have; no file
TemplateCalls ==
    {<<TemplateFile(<<FullLayout>>), n>> : n \in {DefaultLayoutName, "Other"}}
    \cup {<<TemplateFile(<<LayoutWithout(n)>>), DefaultLayoutName>> :
            n \in 1..Len(REQUIRED_PLACEHOLDERS)}
    \cup {<<TemplateFile(<<Layout(DefaultLayoutName,
                                  RequiredNames \ {"Level_Expert", "Header_JobGroup"},
                                  {})>>), DefaultLayoutName>>}
    \cup {<<TemplateFile(<<Layout(DefaultLayoutName, RequiredNames \cup {"Title"}, {})>>),
            DefaultLayoutName>>}
    \cup {<<TemplateFile(<<Layout(DefaultLayoutName, RequiredNames, {"Topic_Title"})>>),
            DefaultLayoutName>>}
    \cup {<<TemplateFile(<<FullLayout, BlankLayout>>), n>> :
            n \in {DefaultLayoutName, "Other"}}
    \cup {<<TemplateFile(<<BlankLayout, FullLayout>>), "Other">>}
    \cup {<<MissingFile, DefaultLayoutName>>}

StrictArgs == {"omitted", "true", "false"}

\* a character the text setter of the presentation library refuses
Unwritable == "^"

\* a topic as the renderer receives it
DeckTopic(title, expert, beginner) ==
    [title |-> title, desc |-> Str(<<"d", "e">>), expert |-> expert,
     advanced |-> Str(<<"a", "d", "v">>), intermediate |-> Null, beginner |-> beginner]

DT1 == DeckTopic(Str(<<"T", "1">>), Str(<<"-", " ", "x", "\n", Glyph, "y">>), Lst(<<>>))
DT2 == DeckTopic(Str(<<" ", "T", Glyph, "2">>), Lst(<<<<"*", "p">>, <<" ">>, <<"q">>>>),
                 Str(<<"b">>))
DT3 == DeckTopic(Null, Str(<<"e">>), Str(<<"-", " ", "-", " ", "z">>))
DTBad == DeckTopic(Str(<<"T", Unwritable>>), Str(<<"e">>), Str(<<"b">>))

\* a job as the renderer receives it; a key that is absent or null is Null
DeckJob(gg, sg, jl, ct, topics) ==
    [general_group |-> gg, specific_group |-> sg, job_location |-> jl,
     comp_type |-> ct, job_group |-> Str(<<"J", "g">>), department |-> Str(<<"D", "p">>),
     competency_name |-> Str(<<"N", "a">>), definition |-> Str(<<"D", "f">>),
     topics |-> topics]

DeckJobA == DeckJob(Str(<<" ", "G">>), Null, Str(<<>>), Str(<<"C", "t">>), <<DT1, DT2>>)
DeckJobB == DeckJob(Null, Str(<<"S">>), Str(<<" ">>), Null, <<DT3>>)
DeckJobBad == DeckJob(Null, Null, Str(<<"L">>), Str(<<"C", "t">>), <<DT2, DTBad>>)
DeckJobNoTopics == DeckJob(Null, Null, Null, Null, <<>>)

DeckJobs == {DeckJobA, DeckJobB, DeckJobBad, DeckJobNoTopics}

JobsDataValues == SeqsUpTo(DeckJobs, MaxDeckJobs)

\* _as_dict(obj) on a dict
AsDict(obj) == obj

\* the exception of a render call: its type, which raise statement, the names it lists
RErr(type, what, names) == [type |-> type, what |-> what, names |-> names]
NoRErr == RErr("None", "", <<>>)

NoPreflight == [ran |-> FALSE, raised |-> FALSE, ok |-> FALSE, missing |-> <<>>]

NoResult == [returned |-> FALSE, output_filename |-> <<>>, slides_generated |-> 0,
             gcs_bucket |-> FALSE, gcs_object |-> FALSE, gcs_url |-> FALSE,
             signed_url |-> FALSE, upload_error |-> "", artifact_saved |-> FALSE,
             artifact_filename |-> <<>>, final_message |-> ""]


(***************************************************************************)
(* TemplateOverlayRenderer: functions                                      *)
(***************************************************************************)
\* mutant: without a layout of that name the first layout is taken
FindLayoutFirst(tpl, name) ==
    LET k == FirstTrue([i \in 1..Len(tpl.layouts) |-> tpl.layouts[i].name = name])
    IN IF k # 0 THEN tpl.layouts[k] ELSE tpl.layouts[1]

\* _find_layout(prs, layout_name): the first layout of that name, else the last one
FindLayout(tpl, name) ==
    LET k == FirstTrue([i \in 1..Len(tpl.layouts) |-> tpl.layouts[i].name = name])
    IN IF k # 0 THEN tpl.layouts[k] ELSE tpl.layouts[Len(tpl.layouts)]

\* _layout_placeholder_map(layout): the names that have an index
LayoutPlaceholderMap(layout) == layout.exposed

\* mutant: only the header names are looked for
MissingHeadersOnly(m) ==
    SelectSeq(SubSeq(REQUIRED_PLACEHOLDERS, 1, 4), LAMBDA n : n \notin m)

\* missing = [n for n in REQUIRED_PLACEHOLDERS if n not in m]
\* (validate_template_placeholders)
MissingRequired(m) == SelectSeq(REQUIRED_PLACEHOLDERS, LAMBDA n : n \notin m)

\* validate_template_placeholders(template_path, layout_name); Presentation() raises
\* when there is no file
ValidateTemplatePlaceholders(tpl, name) ==
    IF ~tpl.exists
    THEN [ran |-> TRUE, raised |-> TRUE, ok |-> FALSE, missing |-> <<>>]
    ELSE LET missing == MissingRequired(LayoutPlaceholderMap(FindLayout(tpl, name)))
         IN [ran |-> TRUE, raised |-> FALSE, ok |-> Len(missing) = 0,
             missing |-> missing]

\* mutant: the strict check looks at the first required name only
StrictMissingFirstOnly(m) ==
    SelectSeq(SubSeq(REQUIRED_PLACEHOLDERS, 1, 1), LAMBDA n : n \notin m)

\* missing = [n for n in REQUIRED_PLACEHOLDERS if n not in layout_map]
\* (generate_competency_slides)
StrictMissing(m) == SelectSeq(REQUIRED_PLACEHOLDERS, LAMBDA n : n \notin m)

\* mutant: an omitted strict argument means non-strict
StrictOfLenientDefault(e, arg) == arg = "true"

\* the strict flag in force: the argument, or the default when it is omitted
StrictOf(e, arg) ==
    IF arg = "omitted"
    THEN (IF e = "pptx" THEN PptxStrictDefault ELSE SlidesStrictDefault)
    ELSE arg = "true"

\* a or b, of Python
OrElse(a, b) == IF Truthy(a) THEN a ELSE b

\* mutant: the record's own field wins over the classification field
HeaderSourceOwnFirst(job, classification, own) ==
    OrElse(job[own], job[classification])

\* job.get(classification) or job.get(own, ""); an absent key and a null value are
\* both written as the empty text
HeaderSource(job, classification, own) ==
    OrElse(job[classification], job[own])

\* content_map of one topic of one job
ContentMap(job, topic) ==
    [n \in RequiredNames |->
        CASE n = "Header_CompType" -> HeaderSource(job, "general_group", "comp_type")
          [] n = "Header_JobGroup" -> HeaderSource(job, "specific_group", "job_group")
          [] n = "Header_Competency" -> job.competency_name
          [] n = "Header_Department" -> HeaderSource(job, "job_location", "department")
          [] n = "Main_Title" -> job.competency_name
          [] n = "Main_Definition" -> job.definition
          [] n = "Topic_Title" -> topic.title
          [] n = "Topic_Description" -> topic.desc
          [] n = "Level_Expert" -> Str(RenderNormalizeLines(topic.expert))
          [] n = "Level_Advanced" -> Str(RenderNormalizeLines(topic.advanced))
          [] n = "Level_Intermediate" -> Str(RenderNormalizeLines(topic.intermediate))
          [] OTHER -> Str(RenderNormalizeLines(topic.beginner))]

\* the order in which content_map is walked: the order its keys were inserted
ContentOrder == REQUIRED_PLACEHOLDERS

\* "" if value is None else _strip_bullet_symbols(str(value))
WrittenText(value) == IF value.t = "null" THEN <<>> ELSE StripBulletSymbols(value.v)

\* the text setter raises on this text
WriteRaises(text) == \E i \in 1..Len(text) : text[i] = Unwritable

\* a slide fresh from add_slide: no placeholder written
BlankSlide == [texts |-> [n \in RequiredNames |-> Null]]

\* mutant: a failing text setter is skipped in strict mode too
RECURSIVE WriteFieldsSwallow(_, _, _, _, _)
WriteFieldsSwallow(i, slide, content, layout, strict) ==
    IF i > Len(ContentOrder) THEN [slide |-> slide, err |-> NoRErr]
    ELSE LET name == ContentOrder[i]
             text == WrittenText(content[name])
             on == WriteFieldsSwallow(i + 1, slide, content, layout, strict)
         IN IF name \notin LayoutPlaceholderMap(layout)
            THEN (IF strict
                  THEN [slide |-> slide, err |-> RErr("KeyError", "not_in_layout", <<name>>)]
                  ELSE on)
            ELSE IF name \in layout.absent
            THEN (IF strict
                  THEN [slide |-> slide, err |-> RErr("KeyError", "slide_missing", <<name>>)]
                  ELSE on)
            ELSE IF WriteRaises(text) THEN on
            ELSE WriteFieldsSwallow(i + 1,
                                    [slide EXCEPT !.texts[name] = Str(text)],
                                    content, layout, strict)

\* the loop "for name, value in content_map.items()" from the i-th name on
RECURSIVE WriteFields(_, _, _, _, _)
WriteFields(i, slide, content, layout, strict) ==
    IF i > Len(ContentOrder) THEN [slide |-> slide, err |-> NoRErr]
    ELSE LET name == ContentOrder[i]
             text == WrittenText(content[name])
             on == WriteFields(i + 1, slide, content, layout, strict)
         IN IF name \notin LayoutPlaceholderMap(layout)
            THEN (IF strict
                  THEN [slide |-> slide, err |-> RErr("KeyError", "not_in_layout", <<name>>)]
                  ELSE on)
            ELSE IF name \in layout.absent
            THEN (IF strict
                  THEN [slide |-> slide, err |-> RErr("KeyError", "slide_missing", <<name>>)]
                  ELSE on)
            ELSE IF WriteRaises(text)
            THEN (IF strict
                  THEN [slide |-> slide,
                        err |-> RErr("RuntimeError", "write_failed", <<name>>)]
                  ELSE on)
            ELSE WriteFields(i + 1,
                             [slide EXCEPT !.texts[name] = Str(text)],
                             content, layout, strict)

\* mutant: the topics of the first job only are counted
TopicsCountFirstJob(jobs) == IF jobs = <<>> THEN 0 ELSE Len(Head(jobs).topics)

\* topics_count = sum(len((j or {}).get("topics") or []) for j in jobs_data)
RECURSIVE TopicsCount(_)
TopicsCount(jobs) ==
    IF jobs = <<>> THEN 0 ELSE Len(Head(jobs).topics) + TopicsCount(Tail(jobs))


(***************************************************************************)
(* JobExtractor: _validate_job_payload                                     *)
(*                                                                         *)
(* An extracted payload is a function from the keys it has to JSON values. *)
(* Besides null, strings and lists of strings a value can be a number or   *)
(* an object.                                                              *)
(***************************************************************************)
Num == [t |-> "num", v |-> <<>>]
Dict(keys) == [t |-> "dict", v |-> keys]

\* the list `required` of _validate_job_payload
REQUIRED_KEYS ==
    <<"job_title", "job_code", "financial_grade", "general_group", "specific_group",
      "job_purpose", "job_location", "duties", "qualification", "experience",
      "additional_fields">>

RequiredKeys == {REQUIRED_KEYS[i] : i \in 1..Len(REQUIRED_KEYS)}

\* payload.get(k, None)
Get(p, k) == IF k \in DOMAIN p THEN p[k] ELSE Null

\* an Arabic letter, written "~" here: a word character outside [A-Za-z0-9]
ArabicLetter == "~"

\* a letter of a script that is neither Latin nor Arabic, written "%" here
OtherLetter == "%"

LatinLetters ==
    {"a", "b", "c", "d", "e", "f", "g", "h", "i", "j", "k", "l", "m", "n", "o", "p", "q",
     "r", "s", "t", "u", "v", "w", "x", "y", "z", "A", "B", "C", "D", "E", "F", "G", "H",
     "I", "J", "K", "L", "M", "N", "O", "P", "Q", "R", "S", "T", "U", "V", "W", "X", "Y",
     "Z"}

Digits == {"0", "1", "2", "3", "4", "5", "6", "7", "8", "9"}

\* [A-Za-z0-9]
IsAlnum(c) == c \in LatinLetters \cup Digits

\* \w of a str pattern: letters of any script, digits and the underscore
IsWordChar(c) == IsAlnum(c) \/ c \in {"_", ArabicLetter, OtherLetter}

\* the length of the token JOB_CODE_RE looks for
TokenLen == 4

\* the length a code without a token is cut to
KeptLen == 8

\* mutant: four alphanumeric characters match wherever they stand
MatchesAtAnywhere(s, i) ==
    /\ i + TokenLen - 1 <= Len(s)
    /\ \A j \in i..(i + TokenLen - 1) : IsAlnum(s[j])

\* \b([A-Za-z0-9]{4})\b matches at position i of s
MatchesAt(s, i) ==
    /\ i + TokenLen - 1 <= Len(s)
    /\ \A j \in i..(i + TokenLen - 1) : IsAlnum(s[j])
    /\ (i = 1 \/ ~IsWordChar(s[i - 1]))
    /\ (i + TokenLen - 1 = Len(s) \/ ~IsWordChar(s[i + TokenLen]))

\* JOB_CODE_RE.search(s): the position of the leftmost match, 0 when there is none
JobCodeSearch(s) == FirstTrue([i \in 1..Len(s) |-> MatchesAt(s, i)])

\* out["job_code"]: m.group(1) if m else jc.strip()[:8]; None unless jc is a string
NormalizeJobCode(jc) ==
    IF jc.t = "str"
    THEN LET s == Strip(jc.v)
             k == JobCodeSearch(s)
         IN IF k # 0 THEN Str(SubSeq(s, k, k + TokenLen - 1)) ELSE Str(Take(s, KeptLen))
    ELSE Null

\* [re.sub(r"^\s*[\u2022\-\*]\s*", "", ln).strip() for ln in duties.splitlines()]
\* without the empty parts
DutiesFromString(s) ==
    LET lines == SplitLines(s)
    IN SelectSeq([i \in 1..Len(lines) |-> Strip(RemoveLeadingBullet(lines[i]))],
                 LAMBDA x : x # <<>>)

\* out["duties"]
NormalizeDuties(duties) ==
    CASE duties.t = "null" -> Null
      [] duties.t = "str" -> Lst(DutiesFromString(duties.v))
      [] duties.t = "list" -> Lst(StrippedNonEmpty(duties.v))
      [] OTHER -> Null

\* out["additional_fields"]: {} for None, {"_raw": str(af)} for what is not a dict
NormalizeAdditional(af) ==
    CASE af.t = "null" -> Dict(<<>>)
      [] af.t = "dict" -> af
      [] OTHER -> Dict(<<"_raw">>)

\* _validate_job_payload(payload)
ValidateJobPayload(p) ==
    [k \in RequiredKeys |->
        CASE k = "duties" -> NormalizeDuties(Get(p, k))
          [] k = "job_code" -> NormalizeJobCode(Get(p, k))
          [] k = "additional_fields" -> NormalizeAdditional(Get(p, k))
          [] OTHER -> Get(p, k)]

\* the characters of the job codes tried
CodeChars == {"A", "1", "_", "-", " ", ArabicLetter}

\* every code of up to MaxCodeLen characters, and longer ones: two tokens, a token
\* after a longer word, a token within blanks, nine characters without a token,
\* words joined by an underscore, two tokens after a word that is not one
JobCodes ==
    SeqsUpTo(CodeChars, MaxCodeLen)
    \cup { <<"A", "A", "A", "A", "-", "1", "1", "1", "1">>,
           <<"A", "A", "A", "A", "A", " ", "1", "B", "2", "a">>,
           <<" ", " ", "1", "A", "1", "A", " ">>,
           <<"A", "A", "A", "A", "A", "A", "A", "A", "A">>,
           <<" ", "A", "-", "A", "A", "_", "1", "1", "1", "1", "1", " ">>,
           <<ArabicLetter, "A", " ", "1", "A", "1", "A", "-", "B", "2", "B", "2", " ">> }

\* the duties tried: every text of up to MaxDutyLen characters, lists, a number
DutyChars == {"a", " ", "\n", "-", Glyph}

\* the elements of the duty lists tried
DutyItems == { <<>>, <<" ">>, <<"a">>, <<" ", "a", " ">>, <<"-", " ", "a">> }

DutiesValues ==
    {Null, Num, Dict(<<"x">>)}
    \cup {Str(t) : t \in SeqsUpTo(DutyChars, MaxDutyLen)}
    \cup {Lst(l) : l \in SeqsUpTo(DutyItems, MaxItems)}

\* a payload with every key but those of `without`
FullPayload(code, duties, af, without) ==
    [k \in RequiredKeys \ without |->
        CASE k = "duties" -> duties
          [] k = "job_code" -> code
          [] k = "additional_fields" -> af
          [] OTHER -> Str(<<"v">>)]

\* payloads that differ in the job code only
CodePayloads == {FullPayload(Str(c), Lst(<<<<"a">>>>), Null, {}) : c \in JobCodes}

\* payloads that differ in the duties only
DutiesPayloads ==
    {FullPayload(Str(<<"A", "1", "A", "1">>), d, Dict(<<"x">>), {}) : d \in DutiesValues}

\* payloads that differ in the keys present
KeysPayloads ==
    {FullPayload(Str(<<"A">>), Str(<<"a">>), Null, w) : w \in SUBSET RequiredKeys}

\* payloads with a job code or additional fields of another type, and one
\* with an undeclared key only
TypePayloads ==
    {FullPayload(c, Null, Dict(<<>>), {}) : c \in {Null, Num, Lst(<<>>)}}
    \cup {FullPayload(Null, Null, af, {}) :
            af \in {Null, Num, Str(<<"v">>), Lst(<<>>), Dict(<<>>), Dict(<<"x">>)}}
    \cup {[k \in {"note"} |-> Str(<<"v">>)]}

\* the payloads handed to _validate_job_payload: the code, the duties, the
\* additional fields and the keys present are varied in turn
ExtractedPayloads ==
    CodePayloads \cup (DutiesPayloads \cup (KeysPayloads \cup TypePayloads))

(***************************************************************************)
(* TemplateOverlayRenderer: default_output_name                            *)
(***************************************************************************)
\* the Arabic comma U+060C, written ";" here: in the block 0600-06FF, not a letter
ArabicComma == ";"

\* a character of the block \u0600-\u06FF
InArabicBlock(c) == c \in {ArabicLetter, ArabicComma}

\* a character the class [^\w\u0600-\u06FF\- ] does not match, which therefore stays
IsKept(c) == IsWordChar(c) \/ InArabicBlock(c) \/ c \in {"-", " "}

\* re.sub(r"\s+", "_", s)
RECURSIVE CollapseWhitespace(_)
CollapseWhitespace(s) ==
    IF s = <<>> THEN <<>>
    ELSE IF IsSpace(Head(s)) THEN <<"_">> \o CollapseWhitespace(LStrip(s))
    ELSE <<Head(s)>> \o CollapseWhitespace(Tail(s))

\* the stem used when nothing of the title is left
PlaceholderStem == <<"j", "o", "b">>

Extension == <<".", "p", "p", "t", "x">>

\* a date
Date(y, m, d) == [y |-> y, m |-> m, d |-> d]

\* the decimal digit n as a character
DigitChar(n) == <<"0", "1", "2", "3", "4", "5", "6", "7", "8", "9">>[n + 1]

\* n written with w digits, zero-padded
RECURSIVE Padded(_, _)
Padded(n, w) == IF w = 0 THEN <<>> ELSE Padded(n \div 10, w - 1) \o <<DigitChar(n % 10)>>

\* date.isoformat(): YYYY-MM-DD
IsoFormat(date) ==
    Padded(date.y, 4) \o <<"-">> \o Padded(date.m, 2) \o <<"-">> \o Padded(date.d, 2)

\* default_output_name(job_title, when=date)
DefaultOutputName(title, date) ==
    LET safe == Strip(SelectSeq(title, IsKept))
        stem == IF CollapseWhitespace(safe) # <<>> THEN CollapseWhitespace(safe)
                ELSE PlaceholderStem
    IN stem \o <<"_">> \o IsoFormat(date) \o Extension

\* the characters of the titles tried: a Latin letter, a digit, an Arabic letter, a
\* hyphen, a blank, a tab, an underscore, a path separator, a letter of another
\* script, an Arabic comma
TitleChars == {"a", "1", ArabicLetter, "-", " ", "\t", "_", "/", OtherLetter, ArabicComma}

SeniorEngineer ==
    <<"S", "e", "n", "i", "o", "r", " ", "E", "n", "g", "i", "n", "e", "e", "r">>

\* every title of up to MaxTitleLen characters, and some longer ones
Titles ==
    SeqsUpTo(TitleChars, MaxTitleLen)
    \cup { SeniorEngineer,
           <<" ", "a", " ", " ", "\t", " ", "-", "/", "a", " ">>,
           <<".", ".", "/", ".", ".", "/", "e", "t", "c">> }

Dates == {Date(2025, 1, 5), Date(999, 12, 31)}

(***************************************************************************)
(* TemplateOverlayRenderer: the delivery of render_competency_pptx         *)
(***************************************************************************)
\* the day of the call (date.today())
Today == Date(2025, 1, 5)

\* out_name = output_filename or default_output_name(job_title)
OutName(output_filename, title) ==
    IF Truthy(output_filename) THEN output_filename.v
    ELSE DefaultOutputName(title, Today)

\* the (output_filename, job_title) arguments tried
NameCalls ==
    { <<Null, SeniorEngineer>>,
      <<Str(<<"d", ".", "p", "p", "t", "x">>), SeniorEngineer>> }

\* _maybe_generate_signed_url: a URL unless the lifetime is not positive or signing
\* raises; never an exception
MaybeGenerateSignedUrl(signs) == signs

\* mutant: an upload that failed leaves no error in the record
UploadErrorDropped(up) ==
    CASE up = "no_bucket" -> "GCS_BUCKET_NAME is not set"
      [] OTHER -> "None"

\* upload_error: None after an upload, str(e) of the exception, or the fixed text
\* when no bucket is configured
UploadError(up) ==
    CASE up = "uploaded" -> "None"
      [] up = "no_bucket" -> "GCS_BUCKET_NAME is not set"
      [] OTHER -> "upload_exception"

\* mutant: the artifact is handed over whenever there is a tool context
ArtifactFallbackAlways(gcs_url, context, saves) ==
    IF context THEN (IF saves THEN "saved" ELSE "failed") ELSE "none"

\* the artifact fallback: tried only without a URL and with a tool context; an
\* exception of save_artifact is swallowed
ArtifactFallback(gcs_url, context, saves) ==
    IF ~gcs_url /\ context THEN (IF saves THEN "saved" ELSE "failed") ELSE "none"

\* final_message: which of the texts is returned
FinalMessage(gcs_url, signed, saved) ==
    IF gcs_url THEN (IF signed THEN "link_and_signed_link" ELSE "link")
    ELSE IF saved = "saved" THEN "upload_failed_artifact_saved"
    ELSE "upload_failed"

(***************************************************************************)
(* JobExtractor: parse_jd_pdf                                              *)
(*                                                                         *)
(* The function is a coroutine: invocations that share a tool context      *)
(* interleave at its awaits.  Everything from the search for the PDF to    *)
(* the first extraction call runs without an await that touches shared     *)
(* state, and is one step; each extraction call is a step.                 *)
(***************************************************************************)
\* the invocations in flight
Runs == {"a", "b"}

\* the key under which the segments are cached in tool_context.state
SEGMENTS_KEY == "jd:segments"

\* a state mapping with no key
EmptyState == [k \in {} |-> <<>>]

\* an integer argument
IntVal(i) == [t |-> "int", v |-> i]

\* where a PDF may be: the artifact named by the caller ("omitted" when no name is
\* given, "empty" when loading it yields no bytes), a PDF part of the user's
\* message, the artifacts listed by the context; context is FALSE when
\* tool_context is None
Source(context, named, attached, listed) ==
    [context |-> context, named |-> named, attached |-> attached, listed |-> listed]

NoSource == Source(FALSE, "omitted", FALSE, "none")

Sources ==
    { NoSource,
      Source(TRUE, "found", FALSE, "none"),
      Source(TRUE, "empty", FALSE, "found"),
      Source(TRUE, "omitted", FALSE, "raises"),
      Source(TRUE, "omitted", FALSE, "none"),
      Source(TRUE, "omitted", TRUE, "raises") }

\* steps 1a-1c of parse_jd_pdf: which place supplies pdf_part, "none" when none does;
\* an exception while listing the artifacts is swallowed
LocatePdf(src) ==
    IF src.named = "found" THEN "named"
    ELSE IF src.attached THEN "attached"
    ELSE IF src.listed = "found" THEN "listed"
    ELSE "none"

\* the page texts of the documents tried: no page, a page without the marker, one
\* job card, two job cards with a page between
ParseDocuments ==
    { <<>>,
      << <<"t1">> >>,
      << <<"HDR", "t1">> >>,
      << <<"HDR", "t1">>, <<"t2">>, <<"t2", "HDR">> >> }

\* the selected_job_index arguments tried
Selections == {Null} \cup {IntVal(i) : i \in (-1)..MaxIndex}

\* range(2): the extraction calls made with the sub-document
PdfAttempts == 2

\* the attempt number recorded for the rendered-image call
VisionAttemptNo == 3

\* what one extraction call meets: the request raises, the response has no text,
\* the text is a JSON array, the text is a JSON object
Reply(kind, data) == [kind |-> kind, data |-> data]

ObjectReply ==
    Reply("object", FullPayload(Str(<<" ", "A", "1", "A", "1", "-", "x">>),
                                Str(<<"-", " ", "a", "\n", "\n", "a", " ">>), Null,
                                {"experience"}))

ExtractReplies ==
    {Reply("raises", EmptyState), Reply("empty", EmptyState), Reply("array", EmptyState),
     ObjectReply}

\* _call_gemini_extract: the JSON object of the response, or the error raised
CallGeminiExtract(reply) ==
    CASE reply.kind = "raises" -> [ok |-> FALSE, data |-> EmptyState, err |-> "api_error"]
      [] reply.kind = "empty" ->
            [ok |-> FALSE, data |-> EmptyState, err |-> "empty_response"]
      [] reply.kind = "array" -> [ok |-> FALSE, data |-> EmptyState, err |-> "not_object"]
      [] OTHER -> [ok |-> TRUE, data |-> reply.data, err |-> ""]

\* _render_pages_to_png raises
RenderError == "render_error"

\* exceptions of parse_jd_pdf
PErr(type, what, pdf_err, ocr_err) ==
    [type |-> type, what |-> what, pdf_err |-> pdf_err, ocr_err |-> ocr_err]

NoPErr == PErr("None", "", "", "")

\* what parse_jd_pdf returns
NoSegment == [index |-> -1, page_start |-> -1, page_end |-> -1, title |-> ""]

Return(kind, jobs, segment, job, warning) ==
    [kind |-> kind, jobs |-> jobs, segment |-> segment, job |-> job, warning |-> warning]

NoReturn == Return("none", <<>>, NoSegment, EmptyState, "")

\* the job returned when no project is configured
LocalJob(seg) ==
    [k \in RequiredKeys |->
        CASE k = "job_title" -> seg.title
          [] k = "additional_fields" -> Dict(<<"_warning">>)
          [] OTHER -> Null]

\* job = _validate_job_payload(payload); job["_extraction"] = {method, attempt}
ExtractedJob(data, method, attempt) ==
    ("_extraction" :> [method |-> method, attempt |-> attempt]) @@ ValidateJobPayload(data)

\* one invocation: its position, its arguments and what it found, the local
\* variables segments and last_err, the extraction calls it issued, and how it ended
Run(rpos, source, doc, selected, segments, issued, err, ret, raised) ==
    [pc |-> rpos, source |-> source, doc |-> doc, selected |-> selected,
     segments |-> segments, calls |-> issued, last_err |-> err, ret |-> ret,
     exc |-> raised]

IdleRun == Run("idle", NoSource, <<>>, Null, <<>>, <<>>, "", NoReturn, NoPErr)

\* mutant: the bounds check refuses the index 0
OutOfRangeFromOne(i, n) == i <= 0 \/ i >= n

\* selected_job_index < 0 or selected_job_index >= len(segments)
OutOfRange(i, n) == i < 0 \/ i >= n

\* parse_jd_pdf from its entry to the first extraction call: the run as it stands
\* then (at "pdf" when a call is to follow)
ParseEntry(src, doc, sel, proj) ==
    LET segs == DetectJobSegments(doc)
        stop(e) == Run("raised", src, doc, sel, <<>>, <<>>, "", NoReturn, e)
    IN IF ~src.context THEN stop(PErr("ValueError", "no_context", "", ""))
       ELSE IF LocatePdf(src) = "none"
       THEN stop(PErr("FileNotFoundError", "no_pdf", "", ""))
       ELSE IF segs = <<>> THEN stop(PErr("ValueError", "no_marker", "", ""))
       ELSE IF sel = Null
       THEN Run("returned", src, doc, sel, segs, <<>>, "",
                Return("job_list", segs, NoSegment, EmptyState, ""), NoPErr)
       ELSE IF OutOfRange(sel.v, Len(segs))
       THEN Run("raised", src, doc, sel, segs, <<>>, "", NoReturn,
                PErr("IndexError", "out_of_range", "", ""))
       ELSE IF ~proj
       THEN Run("returned", src, doc, sel, segs, <<>>, "",
                Return("local", <<>>, segs[sel.v + 1], LocalJob(segs[sel.v + 1]), ""),
                NoPErr)
       ELSE Run("pdf", src, doc, sel, segs, <<>>, "", NoReturn, NoPErr)

(***************************************************************************)
(* The states in which a component has not been used.                      *)
(***************************************************************************)
ParserIdle ==
    /\ runs = [r \in Runs |-> IdleRun]
    /\ ctx_state = EmptyState
    /\ extracted = EmptyState
    /\ vpc = "start"
    /\ validated_job = EmptyState

(***************************************************************************)
(* Actions of the segmenter                                                *)
(***************************************************************************)
NormIdle ==
    /\ level_value = Null
    /\ npc = "start"
    /\ level_text = <<>>
    /\ render_text = <<>>
    /\ level_text2 = <<>>
    /\ render_text2 = <<>>

RenderIdle ==
    /\ entry = "none"
    /\ template = MissingFile
    /\ layout_name = DefaultLayoutName
    /\ strict_arg = "omitted"
    /\ jobs_data = <<>>
    /\ rpc = "idle"
    /\ preflight = NoPreflight
    /\ layout_map = {}
    /\ job_i = 0
    /\ topic_i = 0
    /\ slides = <<>>
    /\ file = "absent"
    /\ rexc = NoRErr
    /\ topics_count = 0
    /\ upload = "none"
    /\ result = NoResult
    /\ out_name = <<>>
    /\ signed_url = FALSE
    /\ tool_ctx = FALSE
    /\ artifact = "none"

NameIdle ==
    /\ job_title = <<>>
    /\ when = Date(1, 1, 1)
    /\ namePc = "start"
    /\ output_name = <<>>

BrainIdle ==
    /\ job_payload = EmptyPayload
    /\ retry = 1
    /\ chosen = Null
    /\ prompt = NoPrompt
    /\ pc = "idle"
    /\ calls = 0
    /\ sent = NoPrompt
    /\ raw = NoRaw
    /\ last_err = NoErr
    /\ out = NoOut
    /\ exc = NoExc
    /\ earlier = "nothing"

SegInit ==
    /\ page_texts \in Documents
    /\ job_segments = <<>>
    /\ segPc = "start"
    /\ project = FALSE
    /\ BrainIdle
    /\ RenderIdle
    /\ NormIdle
    /\ ParserIdle
    /\ NameIdle

\* segments = _detect_job_segments(page_texts)
DetectSegments ==
    /\ segPc = "start"
    /\ job_segments' = DetectJobSegments(page_texts)
    /\ segPc' = "done"
    /\ UNCHANGED <<parserVars, nameVars, page_texts, brainVars, renderVars, normVars>>

SegNext == DetectSegments

SegSpec == SegInit /\ [][SegNext]_vars

(***************************************************************************)
(* Actions of the contract validator: one invocation of                    *)
(* generate_competency_json is Invoke, then one Attempt per synthesizer    *)
(* call; Finish hands the result to the caller, who may invoke again.      *)
(***************************************************************************)
Init ==
    /\ page_texts = <<>>
    /\ job_segments = <<>>
    /\ segPc = "start"
    /\ project \in BOOLEAN
    /\ BrainIdle
    /\ RenderIdle
    /\ NormIdle
    /\ ParserIdle
    /\ NameIdle

\* entry of generate_competency_json, up to the retry loop
Invoke ==
    /\ pc = "idle"
    /\ \E p \in JobPayloads, r \in RetryValues, ch \in ChosenValues :
          /\ job_payload' = p
          /\ retry' = r
          /\ chosen' = ch
          /\ prompt' = BuildBrainPrompt(p, ch)
    /\ calls' = 0
    /\ sent' = NoPrompt
    /\ raw' = NoRaw
    /\ last_err' = NoErr
    /\ exc' = NoExc
    /\ IF ~project
       THEN out' = LocalFallback /\ pc' = "returned"
       ELSE out' = NoOut /\ pc' = "loop"
    /\ UNCHANGED <<parserVars, nameVars, segVars, renderVars, normVars, project, earlier>>

\* one pass of the retry loop: the synthesizer answers with text
Attempt ==
    /\ pc = "loop"
    /\ calls < Attempts(retry)
    /\ \E r \in RawOutputs :
          LET res == AttemptResult(r, job_payload)
              e == NextLastErr(last_err, res.err)
          IN /\ sent' = prompt
             /\ raw' = r
             /\ calls' = calls + 1
             /\ IF res.ok
                THEN /\ out' = res.out
                     /\ pc' = "returned"
                     /\ UNCHANGED <<last_err, exc>>
                ELSE /\ last_err' = e
                     /\ out' = NoOut
                     /\ IF calls + 1 < Attempts(retry)
                        THEN pc' = "loop" /\ UNCHANGED exc
                        ELSE /\ pc' = "raised"
                             /\ exc' = TerminalFailure(Attempts(retry), e)
    /\ UNCHANGED <<parserVars, nameVars, segVars, renderVars, normVars, project, job_payload, retry, chosen, prompt, earlier>>

\* mutant: the exception of the call is caught like a parse failure and the loop
\* goes on while budget remains
AttemptCallRaisesCaught ==
    /\ pc = "loop"
    /\ calls < Attempts(retry)
    /\ sent' = prompt
    /\ calls' = calls + 1
    /\ pc' = IF calls + 1 < Attempts(retry) THEN "loop" ELSE "raised"
    /\ exc' = SynthError
    /\ UNCHANGED <<parserVars, nameVars, segVars, renderVars, normVars, project, job_payload, retry, chosen, prompt, raw, last_err, out,
                   earlier>>

\* one pass of the retry loop: the synthesizer call itself raises
AttemptCallRaises ==
    /\ pc = "loop"
    /\ calls < Attempts(retry)
    /\ sent' = prompt
    /\ calls' = calls + 1
    /\ pc' = "raised"
    /\ exc' = SynthError
    /\ UNCHANGED <<parserVars, nameVars, segVars, renderVars, normVars, project, job_payload, retry, chosen, prompt, raw, last_err, out,
                   earlier>>

\* what an invocation had used when it ended: a clarification turn, every attempt of
\* its budget, or neither
HowEnded(o, n, r) ==
    IF o.kind = "clarification" THEN "clarification"
    ELSE IF n = Attempts(r) THEN "exhausted"
    ELSE "nothing"

\* the caller has taken the result or the exception
Finish ==
    /\ pc \in {"returned", "raised"}
    /\ job_payload' = EmptyPayload
    /\ retry' = 1
    /\ chosen' = Null
    /\ prompt' = NoPrompt
    /\ pc' = "idle"
    /\ calls' = 0
    /\ sent' = NoPrompt
    /\ raw' = NoRaw
    /\ last_err' = NoErr
    /\ out' = NoOut
    /\ exc' = NoExc
    /\ earlier' = HowEnded(out, calls, retry)
    /\ UNCHANGED <<parserVars, nameVars, segVars, renderVars, normVars, project>>

Next == Invoke \/ Attempt \/ AttemptCallRaises \/ Finish

Spec == Init /\ [][Next]_vars


(***************************************************************************)
(* Actions of the renderer.  A call is Call, then OpenTemplate, LoadJobs,  *)
(* one AddSlide per topic and Save; render_competency_pptx goes on with    *)
(* Upload and HandOff.  Validate is the pre-flight check of a caller.      *)
(***************************************************************************)
Strict == StrictOf(entry, strict_arg)

\* the caller pre-flights a template with validate_template_placeholders
Validate ==
    /\ rpc = "idle"
    /\ \E tc \in TemplateCalls :
          /\ template' = tc[1]
          /\ layout_name' = tc[2]
          /\ preflight' = ValidateTemplatePlaceholders(tc[1], tc[2])
    /\ rpc' = "checked"
    /\ UNCHANGED <<parserVars, nameVars, segVars, brainVars, normVars, deliveryVars, entry, strict_arg, jobs_data, layout_map, job_i,
                   topic_i, slides, file, rexc, topics_count, upload, result>>

\* generate_competency_slides or render_competency_pptx is called, on the template
\* that was pre-flighted when one was; render_competency_pptx counts the topics
Call ==
    /\ rpc \in {"idle", "checked"}
    /\ \E e \in {"slides", "pptx"}, sa \in StrictArgs, jd \in JobsDataValues :
          /\ entry' = e
          /\ strict_arg' = sa
          /\ jobs_data' = jd
          /\ topics_count' = IF e = "pptx" THEN TopicsCount(jd) ELSE 0
          /\ IF e = "pptx"
             THEN \E nc \in NameCalls : out_name' = OutName(nc[1], nc[2])
             ELSE out_name' = <<>>
    /\ IF rpc = "checked"
       THEN UNCHANGED <<template, layout_name>>
       ELSE \E tc \in TemplateCalls : template' = tc[1] /\ layout_name' = tc[2]
    /\ rpc' = "open"
    /\ UNCHANGED <<parserVars, nameVars, segVars, brainVars, normVars, signed_url, tool_ctx,
                   artifact, preflight, layout_map, job_i, topic_i, slides, file, rexc,
                   upload, result>>

\* generate_competency_slides up to the strict check of the layout
OpenTemplate ==
    /\ rpc = "open"
    /\ IF ~template.exists
       THEN /\ rpc' = "raised"
            /\ rexc' = RErr("FileNotFoundError", "template", <<>>)
            /\ UNCHANGED layout_map
       ELSE LET m == LayoutPlaceholderMap(FindLayout(template, layout_name))
                missing == StrictMissing(m)
            IN /\ layout_map' = m
               /\ IF Strict /\ missing # <<>>
                  THEN /\ rpc' = "raised"
                       /\ rexc' = RErr("ValueError", "missing_placeholders", missing)
                  ELSE rpc' = "jobs" /\ UNCHANGED rexc
    /\ UNCHANGED <<parserVars, nameVars, segVars, brainVars, normVars, deliveryVars, entry, template, layout_name, strict_arg, jobs_data,
                   preflight, job_i, topic_i, slides, file, topics_count, upload, result>>

\* jobs_list = [_as_dict(j) for j in jobs_data]; an empty list raises
LoadJobs ==
    /\ rpc = "jobs"
    /\ LET jobs_list == [i \in 1..Len(jobs_data) |-> AsDict(jobs_data[i])]
       IN IF jobs_list = <<>>
          THEN /\ rpc' = "raised"
               /\ rexc' = RErr("ValueError", "empty_jobs", <<>>)
               /\ UNCHANGED job_i
          ELSE /\ rpc' = "slides"
               /\ job_i' = 1
               /\ UNCHANGED rexc
    /\ UNCHANGED <<parserVars, nameVars, segVars, brainVars, normVars, deliveryVars, entry, template, layout_name, strict_arg, jobs_data,
                   preflight, layout_map, topic_i, slides, file, topics_count, upload,
                   result>>

\* the loop takes up a job that has no topics
JobWithoutTopics ==
    /\ rpc = "slides"
    /\ topic_i = 0
    /\ jobs_data[job_i].topics = <<>>
    /\ rpc' = "raised"
    /\ rexc' = RErr("ValueError", "no_topics", <<>>)
    /\ UNCHANGED <<parserVars, nameVars, segVars, brainVars, normVars, deliveryVars, entry, template, layout_name, strict_arg, jobs_data,
                   preflight, layout_map, job_i, topic_i, slides, file, topics_count,
                   upload, result>>

\* one pass of the topic loop: a slide is added and its placeholders are written
AddSlide ==
    /\ rpc = "slides"
    /\ jobs_data[job_i].topics # <<>>
    /\ LET job == jobs_data[job_i]
           topic == job.topics[topic_i + 1]
           w == WriteFields(1, BlankSlide, ContentMap(job, topic),
                            FindLayout(template, layout_name), Strict)
           lastTopic == topic_i + 1 = Len(job.topics)
           lastJob == job_i = Len(jobs_data)
       IN /\ slides' = Append(slides, w.slide)
          /\ IF w.err # NoRErr
             THEN /\ rpc' = "raised"
                  /\ rexc' = w.err
                  /\ UNCHANGED <<job_i, topic_i>>
             ELSE /\ UNCHANGED rexc
                  /\ topic_i' = IF lastTopic THEN 0 ELSE topic_i + 1
                  /\ job_i' = IF lastTopic /\ ~lastJob THEN job_i + 1 ELSE job_i
                  /\ rpc' = IF lastTopic /\ lastJob THEN "save" ELSE "slides"
    /\ UNCHANGED <<parserVars, nameVars, segVars, brainVars, normVars, deliveryVars, entry, template, layout_name, strict_arg, jobs_data,
                   preflight, layout_map, file, topics_count, upload, result>>

\* prs.save(output_path); generate_competency_slides returns
Save ==
    /\ rpc = "save"
    /\ file' = "saved"
    /\ rpc' = IF entry = "pptx" THEN "upload" ELSE "returned"
    /\ UNCHANGED <<parserVars, nameVars, segVars, brainVars, normVars, deliveryVars, entry, template, layout_name, strict_arg, jobs_data,
                   preflight, layout_map, job_i, topic_i, slides, rexc, topics_count,
                   upload, result>>

\* step 4 of render_competency_pptx: the upload, when a bucket is configured, and the
\* signed URL, when one is asked for; an exception of the upload is kept as the
\* upload error
Upload ==
    /\ rpc = "upload"
    /\ \E bucket \in BOOLEAN, uploads \in BOOLEAN, signed \in BOOLEAN, signs \in BOOLEAN :
          /\ upload' = IF ~bucket THEN "no_bucket"
                       ELSE IF uploads THEN "uploaded" ELSE "failed"
          /\ signed_url' = (bucket /\ uploads /\ signed /\ MaybeGenerateSignedUrl(signs))
    /\ rpc' = "handoff"
    /\ UNCHANGED <<parserVars, nameVars, segVars, brainVars, normVars, out_name, tool_ctx,
                   artifact, entry, template, layout_name, strict_arg, jobs_data,
                   preflight, layout_map, job_i, topic_i, slides, file, rexc,
                   topics_count, result>>

\* the artifact fallback when there is no URL, the returned dictionary, and the end
\* of the temporary directory
HandOff ==
    /\ rpc = "handoff"
    /\ \E context \in BOOLEAN, saves \in BOOLEAN :
          LET gcs_url == upload = "uploaded"
              saved == ArtifactFallback(gcs_url, context, saves)
          IN /\ tool_ctx' = context
             /\ artifact' = saved
             /\ result' = [returned |-> TRUE,
                           output_filename |-> out_name,
                           slides_generated |-> topics_count,
                           gcs_bucket |-> upload # "no_bucket",
                           gcs_object |-> upload # "no_bucket",
                           gcs_url |-> gcs_url,
                           signed_url |-> signed_url,
                           upload_error |-> UploadError(upload),
                           artifact_saved |-> saved = "saved",
                           artifact_filename |-> IF saved = "saved" THEN out_name ELSE <<>>,
                           final_message |-> FinalMessage(gcs_url, signed_url, saved)]
    /\ file' = "removed"
    /\ rpc' = "returned"
    /\ UNCHANGED <<parserVars, nameVars, segVars, brainVars, normVars, out_name, signed_url,
                   entry, template, layout_name, strict_arg, jobs_data,
                   preflight, layout_map, job_i, topic_i, slides, rexc, topics_count,
                   upload>>

RenderInit ==
    /\ page_texts = <<>>
    /\ job_segments = <<>>
    /\ segPc = "start"
    /\ project = FALSE
    /\ BrainIdle
    /\ RenderIdle
    /\ NormIdle
    /\ ParserIdle
    /\ NameIdle

RenderNext ==
    \/ Validate
    \/ Call
    \/ OpenTemplate
    \/ LoadJobs
    \/ JobWithoutTopics
    \/ AddSlide
    \/ Save
    \/ Upload
    \/ HandOff

RenderSpec == RenderInit /\ [][RenderNext]_vars


(***************************************************************************)
(* The normalisation of a proficiency-level text: the validator of          *)
(* CompetencyTopic and the renderer each normalise the supplied value, and  *)
(* each is then applied to its own result.                                  *)
(***************************************************************************)
\* the characters of the texts tried: a letter, a blank, a line break, the two ASCII
\* markers and the bullet glyph
LevelChars == {"a", " ", "\n", "-", "*", Glyph}

\* the elements of the lists tried
ItemTexts ==
    { <<>>, <<" ">>, <<"a">>, <<"-", " ", "a">>, <<"a", "\n", "a">>,
      <<"a", "\n", "\n", "a">>, <<"a", " ", "\n", "a">>, <<"a", Glyph>> }

LevelValues ==
    {Null}
    \cup {Str(t) : t \in SeqsUpTo(LevelChars, MaxTextLen)}
    \cup {Lst(l) : l \in SeqsUpTo(ItemTexts, MaxItems)}

NormInit ==
    /\ page_texts = <<>>
    /\ job_segments = <<>>
    /\ segPc = "start"
    /\ project = FALSE
    /\ BrainIdle
    /\ RenderIdle
    /\ ParserIdle
    /\ NameIdle
    /\ level_value \in LevelValues
    /\ npc = "start"
    /\ level_text = <<>>
    /\ render_text = <<>>
    /\ level_text2 = <<>>
    /\ render_text2 = <<>>

\* CompetencyTopic.normalize_bullets(v)
NormalizeBullets ==
    /\ npc = "start"
    /\ level_text' = NormalizeLines(level_value)
    /\ npc' = "validated"
    /\ UNCHANGED <<parserVars, nameVars, segVars, brainVars, renderVars, level_value, render_text, level_text2,
                   render_text2>>

\* expert = _normalize_lines(topic.get("expert")) of the renderer
RenderLevel ==
    /\ npc = "validated"
    /\ render_text' = RenderNormalizeLines(level_value)
    /\ npc' = "rendered"
    /\ UNCHANGED <<parserVars, nameVars, segVars, brainVars, renderVars, level_value, level_text, level_text2,
                   render_text2>>

\* each function on its own result
NormalizeAgain ==
    /\ npc = "rendered"
    /\ level_text2' = NormalizeLines(Str(level_text))
    /\ render_text2' = RenderNormalizeLines(Str(render_text))
    /\ npc' = "again"
    /\ UNCHANGED <<parserVars, nameVars, segVars, brainVars, renderVars, level_value, level_text, render_text>>

NormNext == NormalizeBullets \/ RenderLevel \/ NormalizeAgain

NormSpec == NormInit /\ [][NormNext]_vars

(***************************************************************************)
(* default_output_name on the titles of Titles and the dates of Dates      *)
(***************************************************************************)
NameInit ==
    /\ page_texts = <<>>
    /\ job_segments = <<>>
    /\ segPc = "start"
    /\ project = FALSE
    /\ BrainIdle
    /\ RenderIdle
    /\ NormIdle
    /\ ParserIdle
    /\ job_title \in Titles
    /\ when \in Dates
    /\ namePc = "start"
    /\ output_name = <<>>

\* name = default_output_name(job_title, when=when)
BuildName ==
    /\ namePc = "start"
    /\ output_name' = DefaultOutputName(job_title, when)
    /\ namePc' = "done"
    /\ UNCHANGED <<segVars, brainVars, renderVars, normVars, parserVars, job_title, when>>

NameNext == BuildName

NameSpec == NameInit /\ [][NameNext]_vars

(***************************************************************************)
(* _validate_job_payload on the payloads of ExtractedPayloads              *)
(***************************************************************************)
PayloadInit ==
    /\ page_texts = <<>>
    /\ job_segments = <<>>
    /\ segPc = "start"
    /\ project = FALSE
    /\ BrainIdle
    /\ RenderIdle
    /\ NormIdle
    /\ runs = [r \in Runs |-> IdleRun]
    /\ ctx_state = EmptyState
    /\ extracted \in ExtractedPayloads
    /\ vpc = "start"
    /\ validated_job = EmptyState
    /\ NameIdle

\* job = _validate_job_payload(payload)
ValidatePayload ==
    /\ vpc = "start"
    /\ validated_job' = ValidateJobPayload(extracted)
    /\ vpc' = "done"
    /\ UNCHANGED <<segVars, brainVars, renderVars, normVars, nameVars, runs, ctx_state, extracted>>

PayloadNext == ValidatePayload

PayloadSpec == PayloadInit /\ [][PayloadNext]_vars

(***************************************************************************)
(* Actions of parse_jd_pdf: Begin takes an invocation from its entry to    *)
(* its first extraction call (or to its end), PdfAttempt is one call with  *)
(* the sub-document, VisionAttempt the call with the rendered pages.       *)
(***************************************************************************)
ParseInit ==
    /\ page_texts = <<>>
    /\ job_segments = <<>>
    /\ segPc = "start"
    /\ project \in BOOLEAN
    /\ BrainIdle
    /\ RenderIdle
    /\ NormIdle
    /\ ParserIdle
    /\ NameIdle

\* parse_jd_pdf is entered; the segments found are cached under SEGMENTS_KEY before
\* the selection is looked at
Begin(r) ==
    /\ runs[r].pc = "idle"
    /\ \E src \in Sources, doc \in ParseDocuments, sel \in Selections :
          LET run == ParseEntry(src, doc, sel, project)
          IN /\ runs' = [runs EXCEPT ![r] = run]
             /\ ctx_state' = IF run.segments # <<>>
                             THEN (SEGMENTS_KEY :> run.segments) @@ ctx_state
                             ELSE ctx_state
    /\ UNCHANGED <<segVars, brainVars, renderVars, normVars, nameVars, extracted, vpc, validated_job>>

\* mutant: the first failure of the PDF call goes straight to the vision fallback
PdfAttemptOnce(r) ==
    /\ runs[r].pc = "pdf"
    /\ \E reply \in ExtractReplies :
          LET run == runs[r]
              res == CallGeminiExtract(reply)
              attempt == Len(run.calls) + 1
              seg == run.segments[run.selected.v + 1]
          IN runs' = [runs EXCEPT ![r] =
                IF res.ok
                THEN [run EXCEPT !.pc = "returned",
                                 !.calls = Append(run.calls, "pdf"),
                                 !.ret = Return("job", <<>>, seg,
                                                ExtractedJob(res.data, "pdf", attempt), "")]
                ELSE [run EXCEPT !.pc = "vision",
                                 !.calls = Append(run.calls, "pdf"),
                                 !.last_err = res.err]]
    /\ UNCHANGED <<segVars, brainVars, renderVars, normVars, nameVars, ctx_state, extracted, vpc,
                   validated_job>>

\* one pass of `for attempt in range(2)`: any exception of the call is kept in
\* last_err and the loop goes on
PdfAttempt(r) ==
    /\ runs[r].pc = "pdf"
    /\ \E reply \in ExtractReplies :
          LET run == runs[r]
              res == CallGeminiExtract(reply)
              attempt == Len(run.calls) + 1
              seg == run.segments[run.selected.v + 1]
          IN runs' = [runs EXCEPT ![r] =
                IF res.ok
                THEN [run EXCEPT !.pc = "returned",
                                 !.calls = Append(run.calls, "pdf"),
                                 !.ret = Return("job", <<>>, seg,
                                                ExtractedJob(res.data, "pdf", attempt), "")]
                ELSE [run EXCEPT !.pc = IF attempt < PdfAttempts THEN "pdf" ELSE "vision",
                                 !.calls = Append(run.calls, "pdf"),
                                 !.last_err = res.err]]
    /\ UNCHANGED <<segVars, brainVars, renderVars, normVars, nameVars, ctx_state, extracted, vpc,
                   validated_job>>

\* the vision fallback: the pages are rendered and one call is made with the images;
\* an exception of the rendering or of the call ends the invocation
VisionAttempt(r) ==
    /\ runs[r].pc = "vision"
    /\ LET run == runs[r]
           seg == run.segments[run.selected.v + 1]
       IN \/ runs' = [runs EXCEPT ![r] =
                [run EXCEPT !.pc = "raised",
                            !.exc = PErr("RuntimeError", "extraction_failed",
                                         run.last_err, RenderError)]]
          \/ \E reply \in ExtractReplies :
                LET res == CallGeminiExtract(reply)
                IN runs' = [runs EXCEPT ![r] =
                      IF res.ok
                      THEN [run EXCEPT !.pc = "returned",
                                       !.calls = Append(run.calls, "vision_png"),
                                       !.ret = Return("job", <<>>, seg,
                                                      ExtractedJob(res.data, "vision_png",
                                                                   VisionAttemptNo),
                                                      run.last_err)]
                      ELSE [run EXCEPT !.pc = "raised",
                                       !.calls = Append(run.calls, "vision_png"),
                                       !.exc = PErr("RuntimeError", "extraction_failed",
                                                    run.last_err, res.err)]]
    /\ UNCHANGED <<segVars, brainVars, renderVars, normVars, nameVars, ctx_state, extracted, vpc,
                   validated_job>>

ParseNext == \E r \in Runs : Begin(r) \/ PdfAttempt(r) \/ VisionAttempt(r)

ParseSpec == ParseInit /\ [][ParseNext]_vars

(***************************************************************************)
(* Claims about the segmenter (checked under SegSpec)                      *)
(***************************************************************************)
RECURSIVE TotalOccurrences(_)
TotalOccurrences(pages) ==
    IF pages = <<>> THEN 0
    ELSE PageOccurrences(Head(pages)) + TotalOccurrences(Tail(pages))

\* the 0-based numbers of the pages on which the marker occurs
MarkerPages(pages) == {p \in 0..(Len(pages) - 1) : PageOccurrences(pages[p + 1]) >= 1}

\* C1 as stated: N >= 1 marker occurrences, several of which may share a page, give
\* exactly N segments.
C1_Original ==
    (segPc = "done" /\ TotalOccurrences(page_texts) >= 1)
        => Len(job_segments) = TotalOccurrences(page_texts)

\* C1 as amended: the number of segments is the number of pages that contain the
\* marker; occurrences after the first on a page open no segment.
C1_SegmentPerMarkerPage ==
    (segPc = "done" /\ TotalOccurrences(page_texts) >= 1)
        => /\ Len(job_segments) = Cardinality(MarkerPages(page_texts))
           /\ Len(job_segments) >= 1

C1_Witness ==
    /\ segPc = "done"
    /\ Len(job_segments) = 2
    /\ TotalOccurrences(page_texts) = 4
    /\ \E i \in 1..Len(page_texts) : PageOccurrences(page_texts[i]) = 3

\* C2: the segments are an ordered partition: segment i has index i, starts on a
\* marker page, ends on the page before the next segment's start (the last on the
\* final page), so page_start <= page_end, the segments do not overlap, are ordered
\* by page_start and cover every page from the first marker page to the end of the
\* document; markers on pages 1 and 4 of 6 pages give (1,3) and (4,5), and a single
\* marker gives one segment that reaches the last page.
C2_OrderedPartition ==
    segPc = "done" =>
        LET segs == job_segments
            n == Len(page_texts)
            marks == MarkerPages(page_texts)
        IN /\ \A i \in 1..Len(segs) :
                 /\ segs[i].index = i - 1
                 /\ segs[i].page_start \in marks
                 /\ segs[i].page_end =
                        (IF i < Len(segs) THEN segs[i + 1].page_start - 1 ELSE n - 1)
                 /\ segs[i].page_start <= segs[i].page_end
           /\ \A i, j \in 1..Len(segs) :
                 i < j => segs[i].page_end < segs[j].page_start
           /\ \A p \in 0..(n - 1) :
                 (\E q \in marks : q <= p)
                     => Cardinality({i \in 1..Len(segs) :
                            segs[i].page_start <= p /\ p <= segs[i].page_end}) = 1
           /\ (n = 6 /\ marks = {1, 4})
                 => /\ Len(segs) = 2
                    /\ <<segs[1].page_start, segs[1].page_end>> = <<1, 3>>
                    /\ <<segs[2].page_start, segs[2].page_end>> = <<4, 5>>
           /\ Cardinality(marks) = 1
                 => Len(segs) = 1 /\ segs[1].page_end = n - 1

C2_Witness ==
    /\ segPc = "done"
    /\ Len(page_texts) = 6
    /\ MarkerPages(page_texts) = {1, 4}
    /\ Len(job_segments) = 2
    /\ job_segments[1].page_end = 3
    /\ job_segments[2].page_start = 4
    /\ job_segments[2].page_end = 5


(***************************************************************************)
(* Claims about the contract validator (checked under Spec)                *)
(***************************************************************************)
\* the raw text holds JSON that json.loads accepts after cleaning
Parses(r) == r.wrap \in {"plain", "fenced"} \/ (r.wrap = "prose" /\ r.data.kind # "scalar")

\* the raw text is a clarification object that satisfies the clarification schema
WellFormedClarification(r) ==
    /\ Parses(r)
    /\ r.data.kind = "object"
    /\ r.data.flag = "true"
    /\ Len(r.data.candidates) >= 2
    /\ Len(r.data.candidates) <= 5
    /\ Len(r.data.question) >= 6

\* the latest step was a synthesizer call that answered with text (raw)
Answered == pc \in {"loop", "returned", "raised"} /\ calls >= 1 /\ exc.type # "SynthError"

\* the budget of the current invocation
Budget == 1 + Max(0, retry)

\* C3 as stated: a well-formed clarification is returned with exactly its candidates,
\* and exactly one synthesizer call is made in that invocation.
C3_Original ==
    (Answered /\ WellFormedClarification(raw))
        => /\ pc = "returned"
           /\ out.kind = "clarification"
           /\ out.candidates = raw.data.candidates
           /\ calls = 1

\* C3 as amended: a well-formed clarification is returned at once with exactly its
\* candidates, in order, and no synthesizer call follows it even when budget remains;
\* the invocation has made exactly one call when the clarification is the answer to
\* its first attempt, and k calls when it is the answer to attempt k.
C3_ClarificationIsTerminal ==
    /\ [](  (Answered /\ WellFormedClarification(raw))
              => /\ pc = "returned"
                 /\ out.kind = "clarification"
                 /\ out.candidates = raw.data.candidates
                 /\ out.question = raw.data.question
                 /\ (last_err = NoErr => calls = 1)
                 /\ (last_err # NoErr => calls > 1) )
    /\ [][ (Answered /\ WellFormedClarification(raw)) => calls' # calls + 1 ]_vars

C3_Witness ==
    /\ pc = "returned"
    /\ WellFormedClarification(raw)
    /\ calls = 1
    /\ calls < Budget
    /\ out.candidates = <<"B", "A">>

\* C4: at most 1 + max(0, retry) synthesizer calls per invocation (2 with retry = 1),
\* one after another: a further call is issued only after the previous answer failed
\* parsing or validation, none after a success, and the result is built from the
\* answer of the succeeding attempt alone.
C4_SequentialBoundedAttempts ==
    /\ [](  /\ calls <= Budget
            /\ (retry = 1 => calls <= 2)
            /\ ((pc = "returned" /\ project)
                  => /\ ParseBrainOutput(raw).ok
                     /\ out = AttemptResult(raw, job_payload).out
                     /\ exc = NoExc) )
    /\ [][ (calls' = calls + 1)
              => /\ pc = "loop"
                 /\ (calls >= 1 => (~ParseBrainOutput(raw).ok /\ last_err = ParseBrainOutput(raw).err)) ]_vars
    /\ [][ (pc = "returned") => calls' # calls + 1 ]_vars

C4_Witness ==
    /\ pc = "returned"
    /\ retry = 1
    /\ calls = 2
    /\ last_err.type = "JSONDecodeError"
    /\ out.kind = "jobs"
    /\ Len(out.jobs) = 1

OutOfRangeShape(r) ==
    /\ Parses(r)
    /\ \/ /\ r.data.kind = "list"
          /\ \E i \in 1..Len(r.data.items) :
                Len(r.data.items[i].topics) < 2 \/ Len(r.data.items[i].topics) > 3
       \/ /\ r.data.kind = "object"
          /\ r.data.flag = "true"
          /\ (Len(r.data.candidates) < 2 \/ Len(r.data.candidates) > 5)

\* C6: no returned job has fewer than 2 or more than 3 topics and no returned
\* clarification fewer than 2 or more than 5 candidates; an answer of either shape is
\* a validation failure that uses up an attempt, is retried within the budget and
\* ends in the terminal failure, never a coerced result.
C6_NoOutOfRangeResult ==
    /\ pc = "returned"
          => /\ \A i \in 1..Len(out.jobs) :
                   Len(out.jobs[i].topics) >= 2 /\ Len(out.jobs[i].topics) <= 3
             /\ out.kind = "clarification"
                   => Len(out.candidates) >= 2 /\ Len(out.candidates) <= 5
    /\ (Answered /\ OutOfRangeShape(raw))
          => /\ out = NoOut
             /\ last_err.type = "ValidationError"
             /\ IF calls < Budget THEN pc = "loop"
                ELSE pc = "raised" /\ exc.type = "RuntimeError" /\ exc.last = last_err

C6_Witness ==
    /\ pc = "raised"
    /\ exc.type = "RuntimeError"
    /\ calls = 2
    /\ raw.data.kind = "list"
    /\ Len(raw.data.items) = 1
    /\ Len(raw.data.items[1].topics) = 4

\* C7 as stated: a returned record list always has length exactly 1.
C7_ResultHasOneRecord ==
    (pc = "returned" /\ out.kind = "jobs") => Len(out.jobs) = 1


\* the answer is a JSON array of more than one job object
SeveralJobs(r) == Parses(r) /\ r.data.kind = "list" /\ Len(r.data.items) > 1

\* the returned list holds the first object of the answer and nothing of the others
FirstJobOnly ==
    /\ pc = "returned"
    /\ out.kind = "jobs"
    /\ Len(out.jobs) = 1
    /\ out.jobs[1].competency_name = raw.data.items[1].competency_name
    /\ out.jobs[1].definition = raw.data.items[1].definition
    /\ out.jobs[1].topics = raw.data.items[1].topics
    /\ exc = NoExc

\* C8 as stated, for arrays whose first object is a valid job: an array of more than
\* one job object gives a list holding only the first object, as a success of that
\* attempt.
C8_Original ==
    (Answered /\ SeveralJobs(raw) /\ JobErrors(raw.data.items[1]) = <<>>) => FirstJobOnly

\* C8 as amended: an array of more than one job object, each of which passes the
\* CompetencyJob validation, gives a list holding only the first object, as a success
\* of that attempt; every object is validated before the list is cut, so an invalid
\* later object fails the attempt.
C8_FirstOfSeveralValidJobs ==
    /\ (Answered /\ SeveralJobs(raw)
          /\ \A i \in 1..Len(raw.data.items) : JobErrors(raw.data.items[i]) = <<>>)
          => FirstJobOnly
    /\ (Answered /\ SeveralJobs(raw)
          /\ \E i \in 1..Len(raw.data.items) : JobErrors(raw.data.items[i]) # <<>>)
          => (pc # "returned" /\ last_err.type = "ValidationError")

C8_Witness ==
    /\ pc = "returned"
    /\ calls = 1
    /\ raw.data.items = <<JobB, JobA>>
    /\ Len(out.jobs) = 1
    /\ out.jobs[1].competency_name = JobB.competency_name
    /\ out.jobs[1].topics = JobB.topics

\* the value of an English payload key, trimmed; empty when null
Trimmed(x) == IF x.t = "str" THEN Strip(x.v) ELSE <<>>

\* field f of the returned record is the payload's en value when that is non-empty
\* after trimming, and the validated value otherwise
HeaderFromEnglish(f, en) ==
    LET job == out.jobs[1]
        validated == ValidatedJob(raw.data.items[1])
    IN IF Trimmed(job_payload[en]) # <<>>
       THEN job[f] = Trimmed(job_payload[en])
       ELSE job[f] = validated[f]

\* C9 as stated: each header equals the payload's general_group / specific_group /
\* job_location when that is non-empty after trimming and the validated value
\* otherwise; name, definition and topics are as validated.
C9_Original ==
    (pc = "returned" /\ out.kind = "jobs" /\ out.jobs # <<>>)
        => /\ HeaderFromEnglish("comp_type", "general_group")
           /\ HeaderFromEnglish("job_group", "specific_group")
           /\ HeaderFromEnglish("department", "job_location")
           /\ out.jobs[1].competency_name = raw.data.items[1].competency_name
           /\ out.jobs[1].definition = raw.data.items[1].definition
           /\ out.jobs[1].topics = raw.data.items[1].topics

\* the text the override reads: the English key when it is a non-empty string, else
\* the Arabic-label key when that is a non-empty string, else nothing; then trimmed
OverrideSource(en, ar) ==
    LET e == job_payload[en]
        a == job_payload[ar]
    IN Strip(IF e.t = "str" /\ Len(e.v) > 0 THEN e.v
             ELSE IF a.t = "str" /\ Len(a.v) > 0 THEN a.v
             ELSE <<>>)

HeaderFromPayload(f, en, ar) ==
    LET job == out.jobs[1]
        validated == ValidatedJob(raw.data.items[1])
    IN IF OverrideSource(en, ar) # <<>>
       THEN job[f] = OverrideSource(en, ar)
       ELSE job[f] = validated[f]

\* C9 as amended: each header equals the trimmed payload value when that is non-empty,
\* where the payload value is the English key (general_group, specific_group,
\* job_location) or, when that key is absent, null or the empty string, the key that
\* carries the field's Arabic label; the validated value is kept only when that
\* trimmed value is empty; name, definition and topics are as validated.
C9_HeaderOverride ==
    (pc = "returned" /\ out.kind = "jobs" /\ out.jobs # <<>>)
        => /\ HeaderFromPayload("comp_type", "general_group", "ar_general_group")
           /\ HeaderFromPayload("job_group", "specific_group", "ar_specific_group")
           /\ HeaderFromPayload("department", "job_location", "ar_job_location")
           /\ out.jobs[1].competency_name = raw.data.items[1].competency_name
           /\ out.jobs[1].definition = raw.data.items[1].definition
           /\ out.jobs[1].topics = raw.data.items[1].topics

C9_Witness ==
    /\ pc = "returned"
    /\ out.kind = "jobs"
    /\ raw.data.items = <<JobB>>
    /\ job_payload.general_group = Str(<<" ", "G", " ">>)
    /\ job_payload.specific_group = Null
    /\ job_payload.ar_specific_group = Null
    /\ job_payload.job_location = Null
    /\ out.jobs[1].comp_type = <<"G">>
    /\ out.jobs[1].job_group = <<"J", "b">>
    /\ out.jobs[1].department = <<"l">>

\* C10: with no project configured the synthesizer is never called, whatever the
\* payload, retry and chosen competency; every call returns the same fixed
\* clarification (three generic candidates, within the 2..5 schema, fixed question
\* and reason), never a record, and never raises.
C10_NoProjectFallback ==
    ~project
        => /\ calls = 0
           /\ pc \in {"idle", "returned"}
           /\ exc = NoExc
           /\ raw = NoRaw
           /\ pc = "returned"
                 => /\ out.kind = "clarification"
                    /\ out.candidates = <<"c1", "c2", "c3">>
                    /\ Len(out.candidates) >= 2 /\ Len(out.candidates) <= 5
                    /\ out.question = <<"n", "o", "-", "p", "r", "o", "j">>
                    /\ Len(out.question) >= 6
                    /\ out.reason = "no_project"
                    /\ out.jobs = <<>>

C10_Witness ==
    /\ ~project
    /\ pc = "returned"
    /\ retry = 1
    /\ chosen = Str(<<"C">>)
    /\ job_payload.general_group = Str(<<" ", "G", " ">>)
    /\ out.kind = "clarification"
    /\ Len(out.candidates) = 3

\* the answer parses to JSON that is neither an array nor an object whose
\* needs_clarification is the boolean true
NeitherListNorClarification(r) ==
    /\ Parses(r)
    /\ r.data.kind # "list"
    /\ ~(r.data.kind = "object" /\ r.data.flag = "true")

\* C13: an answer whose JSON is neither a list nor an object with
\* needs_clarification exactly true (a scalar, a bare job object, a flag that is
\* false, missing or not a boolean) is a failed attempt: nothing is returned, the
\* error is the ValueError of the parser, the call counts against the budget, and the
\* invocation retries while budget remains and raises the terminal failure otherwise.
C13_NonListIsFailedAttempt ==
    (Answered /\ NeitherListNorClarification(raw))
        => /\ pc # "returned"
           /\ out = NoOut
           /\ last_err.type = "ValueError"
           /\ calls >= 1 /\ calls <= Budget
           /\ IF calls < Budget THEN pc = "loop"
              ELSE pc = "raised" /\ exc.type = "RuntimeError" /\ exc.last = last_err

C13_Witness ==
    /\ pc = "raised"
    /\ exc.type = "RuntimeError"
    /\ calls = 2
    /\ raw.data.kind = "object"
    /\ raw.data.flag = "string"
    /\ last_err.type = "ValueError"

\* the retry argument generate_competency_model passes (brain_tool.py)
WrapperRetry == 1

\* C14: every invocation starts with a full attempt budget whatever the previous
\* invocation used (a clarification turn, every attempt of its budget): it enters
\* the loop with no call made and no error carried over, and it ends in the terminal
\* failure only after 1 + max(0, retry) calls of its own (2 through the wrapper,
\* which passes retry = 1).  The prompt is built once per invocation and handed
\* unchanged to every synthesizer call; it holds the chosen competency as its
\* steering note when chosen_competency is a non-empty string and no steering note
\* when chosen_competency is None or empty.
C14_FreshBudgetAndSteering ==
    /\ [](  /\ pc # "idle" => prompt = [steer |-> prompt.steer, job |-> job_payload]
            /\ (pc # "idle" /\ chosen.t = "str" /\ Len(chosen.v) > 0)
                  => prompt.steer = chosen
            /\ (pc # "idle" /\ (chosen = Null \/ chosen = Str(<<>>)))
                  => prompt.steer = Null
            /\ calls >= 1 => sent = prompt
            /\ (pc = "raised" /\ exc.type = "RuntimeError")
                  => /\ calls = 1 + Max(0, retry)
                     /\ (retry = WrapperRetry => calls = 2) )
    /\ [][ (pc = "idle" /\ pc' # "idle")
              => /\ calls' = 0
                 /\ last_err' = NoErr
                 /\ exc' = NoExc
                 /\ (project => pc' = "loop") ]_vars
    /\ [][ (calls' = calls + 1) => (sent' = prompt /\ prompt' = prompt) ]_vars

C14_Witness ==
    /\ earlier = "exhausted"
    /\ pc = "raised"
    /\ exc.type = "RuntimeError"
    /\ retry = WrapperRetry
    /\ calls = 2
    /\ chosen = Str(<<"C">>)
    /\ sent.steer = Str(<<"C">>)


(***************************************************************************)
(* Claims about the renderer (checked under RenderSpec)                    *)
(***************************************************************************)
\* the layout the call selects
SelectedLayout == FindLayout(template, layout_name)

\* the (job, topic) pairs of jobs in the order of the jobs and of each job's topics
RECURSIVE TopicsInOrder(_, _)
TopicsInOrder(jobs, j) ==
    IF j > Len(jobs) THEN <<>>
    ELSE [t \in 1..Len(jobs[j].topics) |-> <<j, t>>] \o TopicsInOrder(jobs, j + 1)

\* the number of topics of the call, over all its jobs
TotalTopics == Len(TopicsInOrder(jobs_data, 1))

\* the call has got past the strict check of the layout, or was stopped by it
PastLayoutCheck == rpc \notin {"idle", "checked", "open"}

\* the selected layout lacks at least one of the required names
LacksRequired ==
    /\ template.exists
    /\ \E i \in 1..12 : REQUIRED_PLACEHOLDERS[i] \notin SelectedLayout.exposed

\* C11: in strict mode, when the selected layout lacks any one of the 12 required
\* names, generate_competency_slides raises the missing-placeholder ValueError
\* naming the lacking names, with no slide added, no record taken up and no output
\* file written (and, in render_competency_pptx, nothing uploaded or returned).
C11_StrictMissingFailsFirst ==
    (PastLayoutCheck /\ Strict /\ LacksRequired)
        => /\ rpc = "raised"
           /\ rexc.type = "ValueError"
           /\ rexc.what = "missing_placeholders"
           /\ rexc.names # <<>>
           /\ \A i \in 1..Len(rexc.names) : rexc.names[i] \notin SelectedLayout.exposed
           /\ slides = <<>>
           /\ job_i = 0
           /\ file = "absent"
           /\ upload = "none"
           /\ ~result.returned

C11_Witness ==
    /\ rpc = "raised"
    /\ Strict
    /\ template.exists
    /\ SelectedLayout.exposed = RequiredNames \ {"Level_Beginner"}
    /\ rexc.names = <<"Level_Beginner">>
    /\ Len(jobs_data) = 2
    /\ slides = <<>>
    /\ file = "absent"


\* writing topic t of job j meets a placeholder that the layout maps and the slide
\* lacks, or a text the setter refuses
SlideWriteFails(j, t) ==
    \E n \in SelectedLayout.exposed \cap RequiredNames :
        \/ n \in SelectedLayout.absent
        \/ WriteRaises(WrittenText(ContentMap(jobs_data[j], jobs_data[j].topics[t])[n]))

\* some job of the call has no topics, or some slide of it cannot be written
DeckCannotBeBuilt ==
    \E j \in 1..Len(jobs_data) :
        \/ jobs_data[j].topics = <<>>
        \/ \E t \in 1..Len(jobs_data[j].topics) : SlideWriteFails(j, t)

\* C12: no partial deck.  A call that raises has written no output file, whatever
\* slides it had built; in strict mode a call whose jobs hold a job without topics, a
\* slide lacking a mapped placeholder or a refused write, at any job or topic, raises
\* and never saves; the file is saved only when a slide has been written for every
\* topic of every job; and render_competency_pptx uploads, hands off and returns only
\* after the save.
C12_NoPartialDeck ==
    /\ rpc = "raised"
          => (file = "absent" /\ upload = "none" /\ ~result.returned)
    /\ (Strict /\ rpc \in {"save", "upload", "handoff", "returned", "raised"}
          /\ template.exists /\ ~LacksRequired /\ jobs_data # <<>> /\ DeckCannotBeBuilt)
          => (rpc = "raised" /\ file = "absent")
    /\ file # "absent"
          => /\ rexc = NoRErr
             /\ Len(slides) = TotalTopics
             /\ \A j \in 1..Len(jobs_data) : jobs_data[j].topics # <<>>
             /\ rpc \in {"upload", "handoff", "returned"}
    /\ (upload # "none" \/ result.returned)
          => (entry = "pptx" /\ file \in {"saved", "removed"})
    /\ rpc \in {"upload", "handoff"} => file = "saved"

C12_Witness ==
    /\ rpc = "raised"
    /\ Strict
    /\ entry = "pptx"
    /\ rexc.what = "write_failed"
    /\ Len(slides) = 4
    /\ job_i = 2
    /\ file = "absent"


\* slide k holds what the write loop gives for the k-th topic of the call
SlideIsOfTopic(k) ==
    LET jt == TopicsInOrder(jobs_data, 1)[k]
        job == jobs_data[jt[1]]
        topic == job.topics[jt[2]]
    IN \A n \in RequiredNames :
          \/ slides[k].texts[n] = Null
          \/ slides[k].texts[n] = Str(WrittenText(ContentMap(job, topic)[n]))

\* C15: a call that is accepted (it saves) has added exactly one slide per topic, in
\* the order of the jobs and of each job's topics, so the slides added are as many as
\* the topics; render_competency_pptx reports that number as slides_generated.  While
\* the loop runs the slides are the first topics in that order, and in strict mode
\* every placeholder of each of them is written.
C15_OneSlidePerTopicInOrder ==
    /\ rpc \in {"slides", "save", "upload", "handoff", "returned"}
          => /\ Len(slides) <= TotalTopics
             /\ \A k \in 1..Len(slides) : SlideIsOfTopic(k)
             /\ Strict => \A k \in 1..Len(slides), n \in RequiredNames :
                             slides[k].texts[n] # Null
    /\ file # "absent" => Len(slides) = TotalTopics
    /\ result.returned
          => /\ result.slides_generated = Len(slides)
             /\ result.slides_generated = TotalTopics

C15_Witness ==
    /\ entry = "pptx"
    /\ result.returned
    /\ jobs_data = <<DeckJobB, DeckJobA>>
    /\ result.slides_generated = 3
    /\ Len(slides) = 3
    /\ slides[1].texts["Level_Expert"] = Str(<<"e">>)
    /\ slides[2].texts["Topic_Title"] = Str(<<"T", "1">>)
    /\ slides[3].texts["Topic_Title"] = Str(<<"T", "2">>)


\* the text written for a value: trimmed and without the bullet glyph
Shown(v) == IF v.t = "str" THEN Strip(SelectSeq(v.v, LAMBDA c : c # "@")) ELSE <<>>

\* the header placeholder h of slide k shows the job's classification field when that
\* field is a non-empty string and the record's own field otherwise
HeaderShows(k, h, classification, own) ==
    LET job == jobs_data[TopicsInOrder(jobs_data, 1)[k][1]]
        c == job[classification]
    IN slides[k].texts[h] =
          Str(IF c.t = "str" /\ Len(c.v) > 0 THEN Shown(c) ELSE Shown(job[own]))

\* C16: on every slide whose headers are written, Header_CompType shows
\* general_group, Header_JobGroup shows specific_group and Header_Department shows
\* job_location when that field is non-empty, whatever the record's own comp_type,
\* job_group or department is, and shows the record's own field otherwise; the text
\* shown is the value as every placeholder is written, trimmed and without the
\* bullet glyph.
C16_HeaderFromClassification ==
    (rpc \in {"slides", "save", "upload", "handoff", "returned"} /\ Strict)
        => \A k \in 1..Len(slides) :
              /\ HeaderShows(k, "Header_CompType", "general_group", "comp_type")
              /\ HeaderShows(k, "Header_JobGroup", "specific_group", "job_group")
              /\ HeaderShows(k, "Header_Department", "job_location", "department")

C16_Witness ==
    /\ rpc = "returned"
    /\ Strict
    /\ jobs_data = <<DeckJobA, DeckJobB>>
    /\ slides[2].texts["Header_CompType"] = Str(<<"G">>)
    /\ slides[2].texts["Header_JobGroup"] = Str(<<"J", "g">>)
    /\ slides[2].texts["Header_Department"] = Str(<<"D", "p">>)
    /\ slides[3].texts["Header_CompType"] = Str(<<>>)
    /\ slides[3].texts["Header_JobGroup"] = Str(<<"S">>)
    /\ slides[3].texts["Header_Department"] = Str(<<>>)


\* the placeholder n of a slide for topic t of job j can be written: the layout maps
\* it, the slide carries it and the setter takes the text
CanWrite(j, t, n) ==
    /\ n \in SelectedLayout.exposed
    /\ n \notin SelectedLayout.absent
    /\ ~WriteRaises(WrittenText(ContentMap(jobs_data[j], jobs_data[j].topics[t])[n]))

\* slide k has every placeholder that can be written, and the others untouched
SlideSkipsOnlyUnwritable(k) ==
    LET jt == TopicsInOrder(jobs_data, 1)[k]
        content == ContentMap(jobs_data[jt[1]], jobs_data[jt[1]].topics[jt[2]])
    IN \A n \in RequiredNames :
          slides[k].texts[n] =
              IF CanWrite(jt[1], jt[2], n) THEN Str(WrittenText(content[n])) ELSE Null

\* C17: strict is off only when the caller passes strict=False; an omitted argument
\* means strict in both entry points.  With strict off no placeholder problem raises:
\* a call raises only for a missing template file, an empty jobs_data or a job
\* without topics; a name the layout lacks, a placeholder the slide lacks or a write
\* that fails is skipped and every other field is written; and a call on jobs that
\* all have topics saves a deck with one slide per topic.
C17_NonStrictSkips ==
    /\ (entry # "none" /\ strict_arg = "omitted") => Strict
    /\ (entry # "none" /\ ~Strict) => strict_arg = "false"
    /\ (~Strict /\ rpc = "raised")
          => rexc.what \in {"template", "empty_jobs", "no_topics"}
    /\ (~Strict /\ rpc \in {"slides", "save", "upload", "handoff", "returned"})
          => \A k \in 1..Len(slides) : SlideSkipsOnlyUnwritable(k)
    /\ (~Strict /\ rpc \in {"returned", "raised"} /\ template.exists /\ jobs_data # <<>>
          /\ \A j \in 1..Len(jobs_data) : jobs_data[j].topics # <<>>)
          => /\ rpc = "returned"
             /\ file # "absent"
             /\ Len(slides) = TotalTopics

C17_Witness ==
    /\ rpc = "returned"
    /\ strict_arg = "false"
    /\ template.exists
    /\ SelectedLayout.exposed = RequiredNames \ {"Level_Expert", "Header_JobGroup"}
    /\ jobs_data = <<DeckJobBad, DeckJobB>>
    /\ file = "saved"
    /\ Len(slides) = 3
    /\ slides[2].texts["Header_JobGroup"] = Null
    /\ slides[2].texts["Topic_Title"] = Null
    /\ slides[2].texts["Topic_Description"] = Str(<<"d", "e">>)
    /\ slides[3].texts["Level_Beginner"] = Str(<<"-", " ", "z">>)


\* the place of a required name in the fixed order
RequiredIndex(n) == CHOOSE i \in 1..Len(REQUIRED_PLACEHOLDERS) : REQUIRED_PLACEHOLDERS[i] = n

\* the call raised the missing-placeholder error of the strict check
RaisedMissingPlaceholders ==
    rpc = "raised" /\ rexc.type = "ValueError" /\ rexc.what = "missing_placeholders"

\* C18: validate_template_placeholders returns (ok, missing) where missing holds
\* exactly the required names the selected layout does not expose, each once, in the
\* order of REQUIRED_PLACEHOLDERS, and ok is true iff missing is empty.  On the same
\* template and layout name a strict generate_competency_slides raises the
\* missing-placeholder error exactly when ok is false, naming the same names; after
\* ok = true a strict call raises neither that error nor the not-in-layout KeyError.
C18_PreflightMatchesStrictCheck ==
    /\ (preflight.ran /\ ~preflight.raised)
          => /\ template.exists
             /\ \A n \in RequiredNames :
                   (n \notin SelectedLayout.exposed)
                      <=> (\E i \in 1..Len(preflight.missing) : preflight.missing[i] = n)
             /\ \A i \in 1..Len(preflight.missing) :
                   preflight.missing[i] \in RequiredNames
             /\ \A i, j \in 1..Len(preflight.missing) :
                   i < j => RequiredIndex(preflight.missing[i])
                               < RequiredIndex(preflight.missing[j])
             /\ preflight.ok <=> (preflight.missing = <<>>)
    /\ (preflight.ran /\ preflight.raised) => ~template.exists
    /\ (preflight.ran /\ ~preflight.raised /\ Strict /\ PastLayoutCheck)
          => /\ (~preflight.ok) <=> RaisedMissingPlaceholders
             /\ RaisedMissingPlaceholders => rexc.names = preflight.missing
             /\ rexc.what # "not_in_layout"

C18_Witness ==
    /\ preflight.ran
    /\ ~preflight.ok
    /\ preflight.missing = <<"Header_JobGroup", "Level_Expert">>
    /\ Strict
    /\ RaisedMissingPlaceholders
    /\ rexc.names = <<"Header_JobGroup", "Level_Expert">>


(***************************************************************************)
(* Claims about the level texts (checked under NormSpec)                   *)
(***************************************************************************)
\* the items of a newline-joined text: what stands between the line breaks
RECURSIVE ItemsOf(_)
ItemsOf(t) ==
    LET k == FirstTrue([i \in 1..Len(t) |-> t[i] = "\n"])
    IN IF k = 0 THEN <<t>>
       ELSE <<SubSeq(t, 1, k - 1)>> \o ItemsOf(SubSeq(t, k + 1, Len(t)))

\* an item is non-empty and trimmed, begins with no bullet marker and holds no glyph
CleanItem(it) ==
    /\ it # <<>>
    /\ it[1] \notin {" ", "\t"} /\ it[Len(it)] \notin {" ", "\t"}
    /\ it[1] \notin {"-", "*", "@"}
    /\ \A i \in 1..Len(it) : it[i] # "@"

\* C19 as stated: the level text of a validated CompetencyTopic is empty or a
\* newline-joined list of non-empty trimmed items, none beginning with a bullet
\* marker (the glyph, - or *) and none holding the glyph, whatever string or list was
\* supplied.
C19_LevelTextHasNoBullets ==
    npc # "start"
        => (level_text = <<>>
            \/ \A i \in 1..Len(ItemsOf(level_text)) : CleanItem(ItemsOf(level_text)[i]))


\* no character of the supplied value is a bullet marker: not the glyph, not - or *
NoBulletMarkers(value) ==
    CASE value.t = "str" -> \A i \in 1..Len(value.v) : value.v[i] \notin {"-", "*", "@"}
      [] value.t = "list" ->
            \A k \in 1..Len(value.v) :
                \A i \in 1..Len(value.v[k]) : value.v[k][i] \notin {"-", "*", "@"}
      [] OTHER -> TRUE

\* C20 as stated: on a value (string or list of strings) that has no bullet glyphs,
\* normalising the normalised text gives the normalised text again, for the
\* validator's and for the renderer's _normalize_lines.
C20_NormalizeIdempotent ==
    (npc = "again" /\ NoBulletMarkers(level_value))
        => (level_text2 = level_text /\ render_text2 = render_text)


(***************************************************************************)
(* Further claims about the contract validator (checked under Spec)        *)
(***************************************************************************)
\* the synthesizer call of the current invocation raised
CallRaised(e) == e.type = "SynthError"

\* C28: an exception raised by the synthesizer call itself propagates at once: the
\* step in which it is raised ends the invocation with that exception and no result,
\* whatever budget remains; after it no attempt is issued, and the exception the
\* caller takes is the call's, not the "failed after N attempts" failure.
C28_CallErrorPropagates ==
    [][ /\ (CallRaised(exc') /\ ~CallRaised(exc))
            => /\ pc = "loop" /\ pc' = "raised"
               /\ calls' = calls + 1
               /\ out' = NoOut
               /\ last_err' = last_err
        /\ (CallRaised(exc) /\ pc # "idle")
            => /\ pc = "raised"
               /\ (pc' = "idle" \/ (calls' = calls /\ exc' = exc /\ pc' = pc)) ]_vars

\* the call raised on the first attempt of an invocation that had a retry left
C28_Witness ==
    /\ pc = "raised"
    /\ CallRaised(exc)
    /\ calls = 1
    /\ Attempts(retry) > 1


(***************************************************************************)
(* Further claims about the renderer (checked under RenderSpec)            *)
(***************************************************************************)
\* the template file is there and none of its layouts has the name asked for
NoLayoutOfThatName ==
    /\ template.exists
    /\ \A i \in 1..Len(template.layouts) : template.layouts[i].name # layout_name

\* the last layout of the template
LastLayout == template.layouts[Len(template.layouts)]

\* the required names the last layout does not have
LastLayoutLacks == RequiredNames \ LastLayout.exposed

\* C30: when the template has no layout named layout_name, neither
\* validate_template_placeholders nor generate_competency_slides fails for that
\* reason: the pre-flight check does not raise and reports exactly the names the last
\* layout lacks; the render works with the last layout's placeholders, and is
\* stopped at the layout check exactly when it is strict and the last layout lacks
\* a required name.
C30_UnknownLayoutUsesLast ==
    NoLayoutOfThatName
        => /\ preflight.ran
              => /\ ~preflight.raised
                 /\ preflight.ok = (LastLayoutLacks = {})
                 /\ {preflight.missing[i] : i \in 1..Len(preflight.missing)}
                        = LastLayoutLacks
           /\ PastLayoutCheck
              => /\ layout_map = LastLayout.exposed
                 /\ rexc.type # "FileNotFoundError"
                 /\ (rexc.what = "missing_placeholders")
                        = (Strict /\ LastLayoutLacks # {})
                 /\ rexc.what = "missing_placeholders"
                       => {rexc.names[i] : i \in 1..Len(rexc.names)} = LastLayoutLacks

\* a strict render, pre-flighted, of a template whose first layout is not the one
\* asked for and lacks the required names, and whose last layout has them all: the
\* deck was built and saved
C30_Witness ==
    /\ NoLayoutOfThatName
    /\ Len(template.layouts) = 2
    /\ template.layouts[1].exposed \cap RequiredNames = {}
    /\ preflight.ran /\ preflight.ok
    /\ Strict
    /\ slides # <<>>
    /\ file = "saved"


(***************************************************************************)
(* Further claims about the segmenter (checked under SegSpec)              *)
(***************************************************************************)
\* no line of any page of the document holds the marker
NoMarkerAnywhere ==
    \A p \in 1..Len(page_texts) :
        \A l \in 1..Len(page_texts[p]) : LineOccurrences(page_texts[p][l]) = 0

\* C24: for every page sequence in which no page contains the marker, a document of
\* zero pages included, _detect_job_segments ends and returns the empty list.
C24_NoMarkerNoSegments ==
    (segPc = "done" /\ NoMarkerAnywhere) => job_segments = <<>>

\* a document of several pages, none with the marker, has been segmented
C24_Witness ==
    /\ segPc = "done"
    /\ Len(page_texts) >= 2
    /\ NoMarkerAnywhere
    /\ job_segments = <<>>


(***************************************************************************)
(* Claims about the extracted payload (checked under PayloadSpec)          *)
(***************************************************************************)
\* the eleven declared keys
DeclaredKeys ==
    {"job_title", "job_code", "financial_grade", "general_group", "specific_group",
     "job_purpose", "job_location", "duties", "qualification", "experience",
     "additional_fields"}

\* a non-empty text without whitespace at either end
NonEmptyTrimmed(s) == s # <<>> /\ ~IsSpace(s[1]) /\ ~IsSpace(s[Len(s)])

\* the code supplied, when it is a string
SuppliedCode == Get(extracted, "job_code")

\* the word of s that begins at i: the longest run of word characters from i on
RECURSIVE WordFrom(_, _)
WordFrom(s, i) ==
    IF i > Len(s) \/ ~IsWordChar(s[i]) THEN <<>> ELSE <<s[i]>> \o WordFrom(s, i + 1)

\* a standalone 4-character alphanumeric token begins at i: a whole word of s, of
\* four characters, each a Latin letter or a digit
TokenAt(s, i) ==
    /\ i \in 1..Len(s)
    /\ i = 1 \/ ~IsWordChar(s[i - 1])
    /\ Len(WordFrom(s, i)) = 4
    /\ \A j \in 1..4 : IsAlnum(WordFrom(s, i)[j])

TokenStarts(s) == {i \in 1..Len(s) : TokenAt(s, i)}

\* s begins with p
IsPrefix(p, s) == Len(p) <= Len(s) /\ SubSeq(s, 1, Len(p)) = p

\* C25: for every input mapping, the mapping _validate_job_payload returns has all
\* eleven declared keys, a key the input lacks being null; its duties is null or a
\* list of non-empty trimmed strings; its additional_fields is a mapping; and when
\* the input code is a string, job_code is the first standalone 4-character
\* alphanumeric token of it if it has one, and otherwise the trimmed code cut to its
\* first 8 characters (kept, not dropped).
C25_PayloadContract ==
    vpc = "done"
        => /\ DeclaredKeys \subseteq DOMAIN validated_job
           /\ \A k \in DeclaredKeys \ DOMAIN extracted :
                 k # "additional_fields" => validated_job[k] = Null
           /\ \/ validated_job["duties"] = Null
              \/ /\ validated_job["duties"].t = "list"
                 /\ \A i \in 1..Len(validated_job["duties"].v) :
                       NonEmptyTrimmed(validated_job["duties"].v[i])
           /\ validated_job["additional_fields"].t = "dict"
           /\ SuppliedCode.t = "str"
                 => LET s == SuppliedCode.v
                        got == validated_job["job_code"]
                    IN /\ got.t = "str"
                       /\ IF TokenStarts(s) # {}
                          THEN LET i == CHOOSE i \in TokenStarts(s) :
                                            \A j \in TokenStarts(s) : i <= j
                               IN got.v = WordFrom(s, i)
                          ELSE /\ IsPrefix(got.v, Strip(s))
                               /\ Len(got.v) = IF Len(Strip(s)) < 8 THEN Len(Strip(s)) ELSE 8

\* a code with two tokens after noise has been cut to its first token
C25_Witness ==
    /\ vpc = "done"
    /\ SuppliedCode.t = "str"
    /\ Cardinality(TokenStarts(SuppliedCode.v)) = 2
    /\ ~TokenAt(SuppliedCode.v, 1)
    /\ validated_job["job_code"] = Str(<<"1", "A", "1", "A">>)


(***************************************************************************)
(* Claims about parse_jd_pdf (checked under ParseSpec)                     *)
(***************************************************************************)
\* a PDF is to be had from one of the places the run looks in
PdfToBeFound(src) == src.named = "found" \/ src.attached \/ src.listed = "found"

\* the number of segments of the run's document: its pages that carry the marker
SegmentCount(run) == Cardinality(MarkerPages(run.doc))

\* the run was entered with a tool context and has left its entry step
Entered(run) == run.pc # "idle" /\ run.source.context

\* the run's input is in error: no PDF, no marker, or a selection out of range
NoPdfError(run) == ~PdfToBeFound(run.source)
NoMarkerError(run) == PdfToBeFound(run.source) /\ SegmentCount(run) = 0
IndexError(run) ==
    /\ PdfToBeFound(run.source)
    /\ SegmentCount(run) > 0
    /\ run.selected # Null
    /\ (run.selected.v < 0 \/ run.selected.v >= SegmentCount(run))
InputError(run) == NoPdfError(run) \/ NoMarkerError(run) \/ IndexError(run)

\* C23: parse_jd_pdf raises when no source PDF can be found, when the document has
\* no marker, and when selected_job_index is negative or >= the number of segments;
\* the error is raised with no extraction call issued, and the invocation does
\* nothing after it (no retry); an index in 0..N-1 is not refused.
C23_InputErrorsSurfaceAtOnce ==
    /\ [](\A r \in Runs :
            Entered(runs[r])
                => /\ NoPdfError(runs[r])
                      => /\ runs[r].pc = "raised"
                         /\ runs[r].exc.type = "FileNotFoundError"
                   /\ NoMarkerError(runs[r])
                      => /\ runs[r].pc = "raised"
                         /\ runs[r].exc.type = "ValueError"
                         /\ runs[r].exc.what = "no_marker"
                   /\ IndexError(runs[r])
                      => /\ runs[r].pc = "raised"
                         /\ runs[r].exc.type = "IndexError"
                   /\ InputError(runs[r])
                      => /\ runs[r].calls = <<>>
                         /\ runs[r].ret = NoReturn
                   /\ ~InputError(runs[r])
                      => runs[r].exc.type \in {"None", "RuntimeError"})
    /\ [][\A r \in Runs :
            (Entered(runs[r]) /\ InputError(runs[r])) => runs'[r] = runs[r]]_vars

\* an index equal to the number of segments was refused, with a project configured,
\* while the other invocation had issued extraction calls
C23_Witness ==
    /\ project
    /\ \E r \in Runs :
          /\ runs[r].pc = "raised"
          /\ runs[r].exc.type = "IndexError"
          /\ SegmentCount(runs[r]) = 2
          /\ runs[r].selected = IntVal(2)
          /\ runs[r].calls = <<>>
    /\ \E r \in Runs : Len(runs[r].calls) = 2


\* the run has a project, a PDF and a selection within range: extraction calls follow
Extracting(run) == project /\ Entered(run) /\ ~InputError(run) /\ run.selected # Null

\* the methods of the first n extraction calls in the order the code issues them
CallOrder == <<"pdf", "pdf", "vision_png">>

\* the _extraction entry of a returned job
ExtractionOf(run) == run.ret.job["_extraction"]

\* C27: with a project configured and a valid selection, the extraction calls are
\* issued in the order PDF attempt 1, PDF attempt 2, one vision attempt, and stop at
\* the first call that yields a JSON object: at most 3 calls; a returned job's
\* _extraction is (pdf, 1), (pdf, 2) or (vision_png, 3) and names the last call
\* issued; an invocation of which all three calls failed has raised one error that
\* carries the error of the second PDF attempt and the error of the vision call;
\* and a call is added only while no result and no error has been produced.
C27_ExtractionOrder ==
    /\ [](\A r \in Runs :
            Extracting(runs[r])
                => LET run == runs[r]
                       n == Len(run.calls)
                   IN /\ n <= 3
                      /\ run.calls = SubSeq(CallOrder, 1, n)
                      /\ run.pc = "returned"
                            => /\ n >= 1
                               /\ ExtractionOf(run).method = run.calls[n]
                               /\ ExtractionOf(run).attempt = n
                               /\ <<ExtractionOf(run).method, ExtractionOf(run).attempt>>
                                     \in {<<"pdf", 1>>, <<"pdf", 2>>, <<"vision_png", 3>>}
                      /\ (run.pc = "raised" /\ n = 3)
                            => /\ run.exc.type = "RuntimeError"
                               /\ run.exc.pdf_err = run.last_err
                               /\ run.exc.pdf_err # ""
                               /\ run.exc.ocr_err # ""
                      /\ run.pc = "raised" => n >= 2
                      /\ (run.pc \in {"pdf", "vision"}) => n < 3)
    /\ [][\A r \in Runs :
            /\ (Extracting(runs[r]) /\ runs[r].pc \in {"returned", "raised"})
                  => runs'[r] = runs[r]
            /\ (Extracting(runs[r]) /\ runs'[r].calls # runs[r].calls)
                  => /\ Len(runs'[r].calls) = Len(runs[r].calls) + 1
                     /\ runs[r].ret = NoReturn
                     /\ (runs'[r].pc = "returned"
                            \/ runs'[r].last_err # ""
                            \/ runs'[r].exc.ocr_err # "")
                     /\ (Len(runs[r].calls) = 1 /\ runs'[r].pc # "returned")
                            => runs'[r].exc = NoPErr
            /\ (Extracting(runs[r]) /\ runs'[r].pc = "raised" /\ runs[r].pc # "raised"
                    /\ Len(runs'[r].calls) = 3)
                  => /\ runs'[r].exc.pdf_err = runs[r].last_err
                     /\ runs'[r].exc.ocr_err \in {"api_error", "empty_response", "not_object"}
         ]_vars

\* an invocation whose two PDF attempts failed with different errors returned the job
\* of the vision call; the other invocation's three calls all failed
C27_Witness ==
    /\ \E r \in Runs :
          /\ runs[r].pc = "returned"
          /\ runs[r].calls = <<"pdf", "pdf", "vision_png">>
          /\ ExtractionOf(runs[r]) = [method |-> "vision_png", attempt |-> 3]
          /\ runs[r].ret.warning = "not_object"
    /\ \E r \in Runs :
          /\ runs[r].pc = "raised"
          /\ Len(runs[r].calls) = 3
          /\ runs[r].exc.pdf_err = "empty_response"
          /\ runs[r].exc.ocr_err = "api_error"


\* the run has found segments and cached them
HasCached(run) == run.pc # "idle" /\ run.segments # <<>>

\* the state keeps, under some key, the segments the run cached
StillCached(run) == \E k \in DOMAIN ctx_state : ctx_state[k] = run.segments

\* the run is between two of its awaits: it has started and not yet ended
InFlight(run) == run.pc \in {"pdf", "vision"}

\* C26 as stated: the cached segment list is keyed per source document, so of two
\* invocations in flight at once on different documents, sharing a tool context,
\* neither overwrites the other's cached segments: what each has cached is still in
\* the state.
C26_CachePerDocument ==
    \A r, q \in Runs :
        (/\ InFlight(runs[r]) /\ InFlight(runs[q])
         /\ HasCached(runs[r]) /\ HasCached(runs[q])
         /\ runs[r].doc # runs[q].doc)
            => StillCached(runs[r])


(***************************************************************************)
(* Claims about the output name (checked under NameSpec)                   *)
(***************************************************************************)
\* the allow-list of the claim: letters of the source script (Arabic), Latin letters,
\* digits, the hyphen and the space
AllowListed(c) == c \in LatinLetters \cup Digits \cup {ArabicLetter, "-", " "}

\* what the name ends with: an underscore, the ISO date and the extension
NameSuffix == <<"_">> \o IsoFormat(when) \o Extension

\* the name without that ending
NameStem == SubSeq(output_name, 1, Len(output_name) - Len(NameSuffix))

\* C21 as stated, in its weakest reading: for every title the name is a non-empty
\* stem followed by "_<ISO date>.pptx", and the stem holds no whitespace, no path
\* separator and no character outside the allow-list (Arabic letters, Latin
\* letters, digits, hyphen) other than underscores; "Senior Engineer" on 2025-01-05
\* gives "Senior_Engineer_2025-01-05.pptx".
C21_NameWithinAllowList ==
    namePc = "done"
        => /\ Len(output_name) > Len(NameSuffix)
           /\ SubSeq(output_name, Len(NameStem) + 1, Len(output_name)) = NameSuffix
           /\ \A i \in 1..Len(NameStem) :
                 /\ ~IsSpace(NameStem[i])
                 /\ NameStem[i] # "/"
                 /\ (AllowListed(NameStem[i]) \/ NameStem[i] = "_")
           /\ (job_title = SeniorEngineer /\ when = Date(2025, 1, 5))
                 => output_name = <<"S", "e", "n", "i", "o", "r", "_", "E", "n", "g", "i",
                                     "n", "e", "e", "r", "_", "2", "0", "2", "5", "-", "0",
                                     "1", "-", "0", "5", ".", "p", "p", "t", "x">>


(***************************************************************************)
(* Claims about the delivery of the deck (checked under RenderSpec)        *)
(***************************************************************************)
\* render_competency_pptx has rendered and saved the deck
Rendered == entry = "pptx" /\ file \in {"saved", "removed"}

\* the upload produced no URL: it raised, or no bucket is configured
UploadFailed == upload \in {"failed", "no_bucket"}

\* the keys every returned record has
RecordKeys ==
    {"output_filename", "slides_generated", "gcs_bucket", "gcs_object", "gcs_url",
     "signed_url", "final_message", "upload_error"}

\* C22: after a successful render an upload failure never makes
\* render_competency_pptx raise: it returns a record with upload_error set and no
\* gcs_url, with the output_filename of the call and one slide counted per topic as
\* after an upload; the artifact hand-off is attempted when there is a tool context
\* and its failure is not fatal either; every returned record has output_filename,
\* slides_generated, the storage identifiers, final_message and upload_error.
C22_UploadFailureNotFatal ==
    /\ Rendered => (rpc # "raised" /\ rexc = NoRErr)
    /\ result.returned
          => /\ RecordKeys \subseteq DOMAIN result
             /\ result.final_message # ""
             /\ result.output_filename = out_name
             /\ result.output_filename # <<>>
             /\ result.slides_generated = TotalTopics
    /\ (result.returned /\ UploadFailed)
          => /\ result.upload_error \notin {"None", ""}
             /\ ~result.gcs_url
             /\ tool_ctx => artifact \in {"saved", "failed"}
             /\ result.artifact_saved = (artifact = "saved")

\* the upload raised and, with a tool context, the hand-off of the artifact raised
\* too; the record was returned
C22_Witness ==
    /\ result.returned
    /\ upload = "failed"
    /\ tool_ctx
    /\ artifact = "failed"
    /\ result.upload_error = "upload_exception"
    /\ result.slides_generated = 2

\* C29: in every record returned by render_competency_pptx exactly one of gcs_url
\* and upload_error is non-null; signed_url is non-null only if gcs_url is; and
\* artifact_saved is true only if gcs_url is null, the hand-off being attempted only
\* when the upload produced no URL.
C29_UrlOrError ==
    result.returned
        => /\ result.gcs_url = (result.upload_error = "None")
           /\ result.signed_url => result.gcs_url
           /\ result.artifact_saved => ~result.gcs_url
           /\ artifact # "none" => ~result.gcs_url

\* a record with a URL and a signed URL, returned to a call that has a tool context
C29_Witness ==
    /\ result.returned
    /\ result.gcs_url
    /\ result.signed_url
    /\ tool_ctx
    /\ artifact = "none"
    /\ result.upload_error = "None"

====
